---- MODULE Spec2Model ----
(***************************************************************************)
(* Decline-curve forecast dashboard (src/cases_trial.py).                  *)
(*                                                                         *)
(* Numbers.  The program computes in IEEE doubles.  The model computes in  *)
(* fixed point: a float v is the integer v * Scale, and a product, a       *)
(* quotient, exp and sqrt round down to an integer.  The rate column of a  *)
(* frame holds even integers (multiples of 2/Scale), so that the sums and  *)
(* the halving np.trapz does on it are exact, as they are in the doubles   *)
(* up to an ulp.  NaN is a value of its own that every operation           *)
(* propagates and every comparison answers FALSE for.                      *)
(* Dates are day numbers.                                                  *)
(***************************************************************************)
EXTENDS Integers, Sequences, FiniteSets, TLC

VARIABLES
    eng,        \* the last call of a pure engine function: arguments and result
    db,         \* table forecast_cases, in insertion order (case_id = position)
    cases_df,   \* the frame load_cases returned to the running script
    pc,         \* where the script run is: "start", "loaded", "done"
    inserted,   \* what insert_cases returned in this run (-1: not called)
    plot,       \* the labels, end date and abandonment rate of this run's plot
    out,        \* what forecast_outputs produced in this run
    assistant,  \* app.py: the last run of the SQL assistant page and the SQL executed
    state,      \* IPR_APP.py: st.session_state
    screen,     \* IPR_APP.py: what the last run of the script rendered
    filtered    \* the last call of apply_common_filters: arguments and result

\* the variables of the pages other than the forecast page
otherPages == <<assistant, state, screen, filtered>>

vars == <<eng, db, cases_df, pc, inserted, plot, out, assistant, state, screen, filtered>>

(***************************************************************************)
(* Bounds of the model.                                                    *)
(***************************************************************************)
MaxDay == 6        \* the latest calendar day of a date range
MaxT == 8          \* the largest elapsed time arps_rate is called with directly
MaxRows == 3       \* the longest hand-made rate column given to eur_from_profile
MaxCases == 3      \* the most rows the table forecast_cases holds
MaxBatch == 2      \* the most rows of one edited batch

(***************************************************************************)
(* Fixed-point floats.                                                     *)
(***************************************************************************)
Scale == 10^3

NaN == -(2^30)

IsNaN(x) == x = NaN

\* np.inf and -np.inf: above and below every finite value of the model
Inf == 2^30 - 1

NegInf == -Inf

IsInf(x) == x = Inf \/ x = NegInf

\* the float n/d
Fx(n, d) == (n * Scale) \div d

FNeg(x) == IF IsNaN(x) THEN NaN ELSE -x

FAdd(x, y) == IF IsNaN(x) \/ IsNaN(y) THEN NaN ELSE x + y

FMul(x, y) == IF IsNaN(x) \/ IsNaN(y) THEN NaN ELSE (x * y) \div Scale

\* x / y as numpy divides, for a finite or nan x: x / 0 is nan for x = 0 and an
\* infinity otherwise (a RuntimeWarning, no exception); x over an infinity is 0
FDiv(x, y) ==
    IF IsNaN(x) \/ IsNaN(y) THEN NaN
    ELSE IF y = 0 THEN (IF x = 0 THEN NaN ELSE IF x > 0 THEN Inf ELSE NegInf)
    ELSE IF y \in {Inf, NegInf} THEN 0
    ELSE (x * Scale) \div y

\* float * integer (an int64 day count): exact
FTimes(x, n) == IF IsNaN(x) THEN NaN ELSE x * n

\* IEEE comparisons: FALSE when an operand is NaN
FLt(x, y) == ~IsNaN(x) /\ ~IsNaN(y) /\ x < y

FGe(x, y) == ~IsNaN(x) /\ ~IsNaN(y) /\ x >= y

RECURSIVE ExpTerms(_, _, _)
\* the Taylor series of exp(x), x >= 0, from the k-th term on
ExpTerms(x, k, term) ==
    IF term = 0 THEN 0
    ELSE term + ExpTerms(x, k + 1, (term * x) \div (k * Scale))

\* np.exp
FExp(x) ==
    IF IsNaN(x) THEN NaN
    ELSE IF x >= 0 THEN ExpTerms(x, 1, Scale)
    ELSE (Scale * Scale) \div ExpTerms(-x, 1, Scale)

RECURSIVE IsqrtFrom(_, _, _)
\* the largest r in lo..hi with r*r <= n (lo*lo <= n)
IsqrtFrom(n, lo, hi) ==
    IF lo >= hi THEN lo
    ELSE LET mid == (lo + hi + 1) \div 2
         IN  IF mid * mid <= n THEN IsqrtFrom(n, mid, hi)
             ELSE IsqrtFrom(n, lo, mid - 1)

FSqrt(x) == IsqrtFrom(x * Scale, 0, 40000)

RECURSIVE FPowInt(_, _)
FPowInt(x, n) == IF n = 0 THEN Scale ELSE FMul(x, FPowInt(x, n - 1))

\* x ** e for e a non-negative multiple of 0.5: nan for a negative x under a
\* fractional e
FPowNonNeg(x, e) ==
    IF e % Scale = 0 THEN FPowInt(x, e \div Scale)
    ELSE IF x < 0 THEN NaN
    ELSE FMul(FSqrt(x), FPowInt(x, e \div Scale))

\* x ** e for a finite x and e a multiple of 0.5; x ** -e is 1 / x ** e
FPow(x, e) ==
    IF IsNaN(x) \/ IsNaN(e) THEN NaN
    ELSE IF e < 0 THEN FDiv(Scale, FPowNonNeg(x, -e))
    ELSE FPowNonNeg(x, e)

RECURSIVE SumRange(_, _, _)
\* s[lo] + ... + s[hi], halving the range to keep the recursion shallow
SumRange(s, lo, hi) ==
    IF lo > hi THEN 0
    ELSE IF lo = hi THEN s[lo]
    ELSE LET mid == (lo + hi) \div 2
         IN  FAdd(SumRange(s, lo, mid), SumRange(s, mid + 1, hi))

\* s[1] + ... + s[n]
SumTo(s, n) == SumRange(s, 1, n)

SeqSum(s) == SumTo(s, Len(s))

(***************************************************************************)
(* Decline curve models.                                                   *)
(***************************************************************************)
\* elapsed time counted from the day before the start: t + 1 for t
arps_rate_late(t, qi, di, b) ==
    IF b = 0 THEN FMul(qi, FExp(FTimes(FNeg(di), t + 1)))
    ELSE FDiv(qi, FPow(FAdd(Scale, FTimes(FMul(b, di), t + 1)), FDiv(Scale, b)))

\* the hyperbolic branch with the exponent b in place of 1 / b
arps_rate_exponent_b(t, qi, di, b) ==
    IF b = 0 THEN FMul(qi, FExp(FTimes(FNeg(di), t)))
    ELSE FDiv(qi, FPow(FAdd(Scale, FTimes(FMul(b, di), t)), b))

\* a well without decline taken as a well without production
arps_rate_no_decline_no_rate(t, qi, di, b) ==
    IF di = 0 THEN 0
    ELSE IF b = 0 THEN FMul(qi, FExp(FTimes(FNeg(di), t)))
    ELSE FDiv(qi, FPow(FAdd(Scale, FTimes(FMul(b, di), t)), FDiv(Scale, b)))

\* the outcome of a call that raised instead of returning a value
Raised == NaN - 1

\* arps_rate on Python floats in place of a numpy vector: a float division by
\* zero raises ZeroDivisionError
arps_rate_scalar(t, qi, di, b) ==
    IF b = 0 THEN FMul(qi, FExp(FTimes(FNeg(di), t)))
    ELSE LET den == FPow(FAdd(Scale, FTimes(FMul(b, di), t)), FDiv(Scale, b))
         IN  IF den = 0 \/ IsInf(den) THEN Raised ELSE FDiv(qi, den)

\* arps_rate for one element t of the day vector
arps_rate(t, qi, di, b) ==
    IF b = 0 THEN FMul(qi, FExp(FTimes(FNeg(di), t)))
    ELSE FDiv(qi, FPow(FAdd(Scale, FTimes(FMul(b, di), t)), FDiv(Scale, b)))

\* np.asarray(x, dtype=float) for one element: a value of the rate column
asfloat(x) == IF IsNaN(x) THEN NaN ELSE 2 * (x \div 2)

\* pd.date_range(start, end, freq="D") that leaves the end date out
date_range_open(start_date, end_date) ==
    [i \in 1..(IF end_date > start_date THEN end_date - start_date ELSE 0)
        |-> start_date + i - 1]

\* pd.date_range that yields the start date for an empty range
date_range_nonempty(start_date, end_date) ==
    [i \in 1..(IF end_date >= start_date THEN end_date - start_date + 1 ELSE 1)
        |-> start_date + i - 1]

\* a date range that puts its two ends in order: the days run from the earlier
\* to the later of the two dates
date_range_swapped(start_date, end_date) ==
    LET first == IF start_date <= end_date THEN start_date ELSE end_date
        last  == IF start_date <= end_date THEN end_date ELSE start_date
    IN  [i \in 1..(last - first + 1) |-> first + i - 1]

\* pd.date_range(start=start_date, end=end_date, freq="D")
date_range(start_date, end_date) ==
    [i \in 1..(IF end_date >= start_date THEN end_date - start_date + 1 ELSE 0)
        |-> start_date + i - 1]

\* the mask with <= : a rate equal to the threshold is dropped too
abandon_le(rates, q_abnd) ==
    [i \in DOMAIN rates |-> IF ~IsNaN(rates[i]) /\ ~IsNaN(q_abnd) /\ rates[i] <= q_abnd
                            THEN NaN ELSE rates[i]]

\* the mask that stops at the first breach: everything after it is dropped
abandon_truncate(rates, q_abnd) ==
    [i \in DOMAIN rates |-> IF \E k \in 1..i : FLt(rates[k], q_abnd)
                            THEN NaN ELSE rates[i]]

\* rates[rates < q_abnd] = np.nan
abandon(rates, q_abnd) ==
    [i \in DOMAIN rates |-> IF FLt(rates[i], q_abnd) THEN NaN ELSE rates[i]]

\* a dropna() that is missing: every row is kept
dropna_keeps_nan(df) == df

\* DataFrame.dropna(): the rows without a NaN
dropna(df) == SelectSeq(df, LAMBDA row : ~IsNaN(row.rate))

\* a running sum that leaves the row's own value out
cumsum_exclusive(s) == [i \in DOMAIN s |-> SumTo(s, i - 1)]

\* Series.cumsum()
cumsum(s) == [i \in DOMAIN s |-> SumTo(s, i)]

make_profile(start_date, end_date, qi, di, b, q_abnd) ==
    LET dates  == date_range(start_date, end_date)
        t_days == [i \in DOMAIN dates |-> dates[i] - start_date]
        rates  == abandon([i \in DOMAIN dates |->
                              asfloat(arps_rate(t_days[i], qi, di, b))], q_abnd)
        df     == dropna([i \in DOMAIN dates |-> [Date |-> dates[i], rate |-> rates[i]]])
        cum    == cumsum([i \in DOMAIN df |-> df[i].rate])
    IN  [i \in DOMAIN df |-> [Date |-> df[i].Date, rate |-> df[i].rate, cum |-> cum[i]]]

\* half of the first plus half of the last rate plus the interior rates, also
\* for a single sample
eur_endpoint_rule(df) ==
    IF df = <<>> THEN 0
    ELSE (df[1].rate + df[Len(df)].rate) \div 2
         + SumRange([i \in DOMAIN df |-> df[i].rate], 2, Len(df) - 1)

\* the left rectangle rule: every rate but the last
eur_left_rectangles(df) ==
    IF df = <<>> THEN 0
    ELSE SumRange([i \in DOMAIN df |-> df[i].rate], 1, Len(df) - 1)

\* np.trapz replaced by a plain sum
eur_plain_sum(df) ==
    IF df = <<>> THEN 0 ELSE SeqSum([i \in DOMAIN df |-> df[i].rate])

\* np.trapz(y, dx=1): the sum of dx * (y[i] + y[i+1]) / 2
eur_from_profile(df) ==
    IF df = <<>> THEN 0
    ELSE SeqSum([i \in 1..(Len(df) - 1) |->
                    IF IsNaN(df[i].rate) \/ IsNaN(df[i + 1].rate) THEN NaN
                    ELSE (df[i].rate + df[i + 1].rate) \div 2])

(***************************************************************************)
(* Inputs of the engine functions.                                         *)
(***************************************************************************)
\* <<qi, di, b>>.  The hyperbolic triples keep 1 + b*di*t positive.
DeclineParams ==
    { <<Fx(100, 1), Fx(1, 100), 0>>,          \* exponential, slow
      <<Fx(100, 1), Fx(1, 2), 0>>,            \* exponential, fast
      <<Fx(100, 1), 0, 0>>,                   \* constant rate
      <<Fx(10, 1), -Fx(1, 2), 0>>,            \* di < 0: the rate grows
      <<Fx(100, 1), Fx(1, 10), Fx(1, 1)>>,    \* harmonic
      <<Fx(100, 1), Fx(1, 10), Fx(1, 2)>>,    \* hyperbolic, 1/b = 2
      <<Fx(100, 1), Fx(1, 10), Fx(2, 1)>>,    \* hyperbolic, 1/b = 0.5
      <<Fx(1000, 1), 1, Fx(1, 1)>>,           \* harmonic, di = 0.001
      <<Fx(100, 1), 0, Fx(1, 1)>>,            \* harmonic, constant rate
      <<Fx(100, 1), 0, Fx(1, 2)>>,            \* hyperbolic 1/b = 2, constant rate
      <<Fx(100, 1), 0, Fx(2, 1)>>,            \* hyperbolic 1/b = 0.5, constant rate
      <<0, Fx(1, 2), 0>>,                     \* no production
      <<NaN, Fx(1, 10), 0>>,                  \* qi is not a number
      <<-Fx(10, 1), Fx(1, 2), 0>>,            \* qi < 0
      <<Fx(100, 1), -Fx(3, 10), Fx(2, 1)>> }  \* 1 + b*di*t < 0 from day 2 on: nan

\* <<qi, di, b>> with a day on which 1 + b*di*t is 0
PoleParams ==
    { <<Fx(100, 1), -Fx(1, 2), Fx(1, 1)>>,    \* 100 / 0 on day 2
      <<-Fx(100, 1), -Fx(1, 2), Fx(1, 1)>>,   \* -100 / 0 on day 2
      <<0, -Fx(1, 2), Fx(1, 1)>>,             \* 0 / 0 on day 2
      <<Fx(100, 1), -Fx(1, 2), Fx(2, 1)>>,    \* 100 / 0 on day 1, nan after it
      <<Fx(100, 1), Fx(1, 2), -Fx(1, 1)>> }   \* b < 0: 100 / (0 ** -1) on day 2

AbandonValues == {-Fx(10, 1), 0, Fx(10, 1), Fx(50, 1), Fx(100, 1)}

StartDays == 0..2

EndDays == 0..MaxDay

\* the abandonment example: 366 days at qi = 100, di = 0.01, b = 0, q_abnd = 50
ExampleCall ==
    [start_date |-> 0, end_date |-> 365, qi |-> Fx(100, 1), di |-> Fx(1, 100),
     b |-> 0, q_abnd |-> Fx(50, 1)]

ProfileCalls ==
    { [start_date |-> s, end_date |-> e, qi |-> p[1], di |-> p[2], b |-> p[3],
       q_abnd |-> q] : s \in StartDays, e \in EndDays, p \in DeclineParams,
                       q \in AbandonValues }
    \cup {ExampleCall}

SampleRates == {Fx(10, 1), Fx(20, 1)}

\* hand-made frames: consecutive days, any rate column
SampleFrames ==
    UNION { { [i \in 1..n |-> [Date |-> i, rate |-> r[i], cum |-> SumTo(r, i)]]
              : r \in [1..n -> SampleRates] } : n \in 0..MaxRows }

(***************************************************************************)
(* Strings are tuples of characters, so that str.strip() has something to  *)
(* strip.                                                                  *)
(***************************************************************************)
\* a text cell left empty in the editor
None == <<"None">>

IsSpace(c) == c = " "

RECURSIVE lstrip(_)
lstrip(str) == IF str # <<>> /\ IsSpace(Head(str)) THEN lstrip(Tail(str)) ELSE str

RECURSIVE rstrip(_)
rstrip(str) ==
    IF str # <<>> /\ IsSpace(str[Len(str)]) THEN rstrip(SubSeq(str, 1, Len(str) - 1))
    ELSE str

\* str.strip()
strip(str) == rstrip(lstrip(str))

Range(s) == {s[i] : i \in DOMAIN s}

RECURSIVE concat(_)
\* pd.concat(frames): the rows of the frames, one after the other
concat(frames) ==
    IF frames = <<>> THEN <<>> ELSE Head(frames) \o concat(Tail(frames))

\* the elements of a finite set of integers in ascending order
Ascending(S) ==
    [i \in 1..Cardinality(S) |-> CHOOSE d \in S : Cardinality({x \in S : x < d}) = i - 1]

(***************************************************************************)
(* Database utilities.                                                     *)
(***************************************************************************)
\* ORDER BY eff_date DESC, case_id DESC: a comes before b
OrderedBefore(a, b) ==
    \/ a.eff_date > b.eff_date
    \/ a.eff_date = b.eff_date /\ a.case_id > b.case_id

\* SELECT * FROM forecast_cases without the ORDER BY: the rows as inserted
load_cases_unordered(table) == table

\* SELECT * FROM forecast_cases ORDER BY eff_date DESC, case_id DESC
load_cases(table) ==
    [i \in 1..Len(table) |->
        CHOOSE r \in Range(table) :
            Cardinality({x \in Range(table) : OrderedBefore(x, r)}) = i - 1]

\* cases_df.dropna(subset=["well_name", "case_label", "eff_date", "qi", "di", "b"]):
\* a missing text cell is None, a missing date or number is NaN
dropna_required(rows) ==
    SelectSeq(rows, LAMBDA row :
        /\ row.well_name # None
        /\ row.case_label # None
        /\ ~IsNaN(row.eff_date)
        /\ ~IsNaN(row.qi)
        /\ ~IsNaN(row.di)
        /\ ~IsNaN(row.b))

\* (row.get(field) or "").strip()
TrimmedOrEmpty(v) == IF v = None \/ v = <<>> THEN <<>> ELSE strip(v)

RECURSIVE insert_loop_counts_skipped(_, _, _, _, _)
\* the loop with count += 1 ahead of the test for an empty name or label
insert_loop_counts_skipped(table, rows, k, fails, count) ==
    IF k > Len(rows) THEN <<table, count>>
    ELSE LET row   == rows[k]
             name  == TrimmedOrEmpty(row.well_name)
             label == TrimmedOrEmpty(row.case_label)
         IN  IF name = <<>> \/ label = <<>>
             THEN insert_loop_counts_skipped(table, rows, k + 1, fails, count + 1)
             ELSE IF k \in fails
             THEN insert_loop_counts_skipped(table, rows, k + 1, fails, count)
             ELSE insert_loop_counts_skipped(
                     Append(table, [case_id |-> Len(table) + 1, well_name |-> name,
                                    case_label |-> label, eff_date |-> row.eff_date,
                                    qi |-> row.qi, di |-> row.di, b |-> row.b]),
                     rows, k + 1, fails, count + 1)

RECURSIVE insert_loop_untrimmed(_, _, _, _, _)
\* the loop that stores the cells as typed: strip() only serves the test
insert_loop_untrimmed(table, rows, k, fails, count) ==
    IF k > Len(rows) THEN <<table, count>>
    ELSE LET row   == rows[k]
             name  == TrimmedOrEmpty(row.well_name)
             label == TrimmedOrEmpty(row.case_label)
         IN  IF name = <<>> \/ label = <<>>
             THEN insert_loop_untrimmed(table, rows, k + 1, fails, count)
             ELSE IF k \in fails
             THEN insert_loop_untrimmed(table, rows, k + 1, fails, count)
             ELSE insert_loop_untrimmed(
                     Append(table, [case_id |-> Len(table) + 1,
                                    well_name |-> row.well_name,
                                    case_label |-> row.case_label,
                                    eff_date |-> row.eff_date,
                                    qi |-> row.qi, di |-> row.di, b |-> row.b]),
                     rows, k + 1, fails, count + 1)

\* INSERT OR REPLACE on (well_name, case_label): the new row takes the place of
\* the stored rows of the same well and label
replace_into(table, new) ==
    LET kept == SelectSeq(table, LAMBDA r :
                    ~(r.well_name = new.well_name /\ r.case_label = new.case_label))
    IN  [i \in 1..(Len(kept) + 1) |->
            IF i <= Len(kept) THEN [kept[i] EXCEPT !.case_id = i]
            ELSE [new EXCEPT !.case_id = i]]

RECURSIVE insert_loop_replace(_, _, _, _, _)
\* the loop with INSERT OR REPLACE in place of INSERT
insert_loop_replace(table, rows, k, fails, count) ==
    IF k > Len(rows) THEN <<table, count>>
    ELSE LET row   == rows[k]
             name  == TrimmedOrEmpty(row.well_name)
             label == TrimmedOrEmpty(row.case_label)
         IN  IF name = <<>> \/ label = <<>>
             THEN insert_loop_replace(table, rows, k + 1, fails, count)
             ELSE IF k \in fails
             THEN insert_loop_replace(table, rows, k + 1, fails, count)
             ELSE insert_loop_replace(
                     replace_into(table,
                         [case_id |-> 0, well_name |-> name,
                          case_label |-> label, eff_date |-> row.eff_date,
                          qi |-> row.qi, di |-> row.di, b |-> row.b]),
                     rows, k + 1, fails, count + 1)

RECURSIVE insert_loop_aborts(_, _, _, _, _)
\* the loop with the try around the whole loop: the first sqlite3.Error ends it
insert_loop_aborts(table, rows, k, fails, count) ==
    IF k > Len(rows) THEN <<table, count>>
    ELSE LET row   == rows[k]
             name  == TrimmedOrEmpty(row.well_name)
             label == TrimmedOrEmpty(row.case_label)
         IN  IF name = <<>> \/ label = <<>>
             THEN insert_loop_aborts(table, rows, k + 1, fails, count)
             ELSE IF k \in fails
             THEN <<table, count>>
             ELSE insert_loop_aborts(
                     Append(table, [case_id |-> Len(table) + 1, well_name |-> name,
                                    case_label |-> label, eff_date |-> row.eff_date,
                                    qi |-> row.qi, di |-> row.di, b |-> row.b]),
                     rows, k + 1, fails, count + 1)

RECURSIVE insert_loop(_, _, _, _, _)
\* the for loop of insert_cases over rows k..Len(rows); fails holds the positions
\* at which conn.execute raises sqlite3.Error.  The result is <<table, count>>.
insert_loop(table, rows, k, fails, count) ==
    IF k > Len(rows) THEN <<table, count>>
    ELSE LET row   == rows[k]
             name  == TrimmedOrEmpty(row.well_name)
             label == TrimmedOrEmpty(row.case_label)
         IN  IF name = <<>> \/ label = <<>>
             THEN insert_loop(table, rows, k + 1, fails, count)
             ELSE IF k \in fails
             THEN insert_loop(table, rows, k + 1, fails, count)
             ELSE insert_loop(
                     Append(table, [case_id |-> Len(table) + 1, well_name |-> name,
                                    case_label |-> label, eff_date |-> row.eff_date,
                                    qi |-> row.qi, di |-> row.di, b |-> row.b]),
                     rows, k + 1, fails, count + 1)

\* insert_cases(conn, cases_df): <<the table after the commit, the count returned>>
insert_cases(table, edited, fails) ==
    insert_loop(table, dropna_required(edited), 1, fails, 0)

(***************************************************************************)
(* forecast_outputs and _render_plots.                                     *)
(***************************************************************************)
\* round(x, 2): to the nearest multiple of Scale/100, a tie to the even one
round2(x) ==
    IF IsNaN(x) THEN NaN
    ELSE LET step == Scale \div 100
             lo   == step * (x \div step)
             r    == x - lo
         IN  IF 2 * r < step THEN lo
             ELSE IF 2 * r > step THEN lo + step
             ELSE IF (lo \div step) % 2 = 0 THEN lo ELSE lo + step

\* an inner join on Date: only the dates every profile has
groupby_date_sum_inner(rows) ==
    LET wells == {row.well_name : row \in Range(rows)}
        dates == Ascending({d \in {row.Date : row \in Range(rows)} :
                    \A w \in wells : \E row \in Range(rows) :
                        row.well_name = w /\ row.Date = d})
    IN  [i \in DOMAIN dates |->
            [Date |-> dates[i],
             rate |-> SeqSum(LET sel == SelectSeq(rows, LAMBDA row : row.Date = dates[i])
                             IN  [k \in DOMAIN sel |-> sel[k].rate])]]

\* rows.groupby("Date", as_index=False)["rate"].sum(): one row per date, ascending
groupby_date_sum(rows) ==
    LET dates == Ascending({row.Date : row \in Range(rows)})
    IN  [i \in DOMAIN dates |->
            [Date |-> dates[i],
             rate |-> SeqSum(LET sel == SelectSeq(rows, LAMBDA row : row.Date = dates[i])
                             IN  [k \in DOMAIN sel |-> sel[k].rate])]]

\* lst[-n:] of a Python list: the last n elements, and the whole list for n = 0
last_n(lst, n) ==
    IF n = 0 \/ n >= Len(lst) THEN lst ELSE SubSeq(lst, Len(lst) - n + 1, Len(lst))

\* make_profile for case row r, tagged with its label and well
tagged_profile(r, lbl, end_date, q_abnd) ==
    LET prof == make_profile(r.eff_date, end_date, r.qi, r.di, r.b, q_abnd)
    IN  [i \in DOMAIN prof |->
            [Date |-> prof[i].Date, rate |-> prof[i].rate, cum |-> prof[i].cum,
             case_label |-> lbl, well_name |-> r.well_name]]

\* the EUR row with the integral as it is, not rounded
eur_row_unrounded(r, lbl, end_date, q_abnd) ==
    [Well |-> r.well_name, Case |-> lbl, EffDate |-> r.eff_date,
     EUR |-> eur_from_profile(
                 make_profile(r.eff_date, end_date, r.qi, r.di, r.b, q_abnd))]

\* the dict appended to eur_list for case row r
eur_row(r, lbl, end_date, q_abnd) ==
    [Well |-> r.well_name, Case |-> lbl, EffDate |-> r.eff_date,
     EUR |-> round2(eur_from_profile(
                 make_profile(r.eff_date, end_date, r.qi, r.di, r.b, q_abnd)))]

RECURSIVE label_loop(_, _, _, _, _)
\* the loop "for lbl in labels" from position k on; st holds the three lists
label_loop(frame, labels, k, args, st) ==
    IF k > Len(labels) THEN [st EXCEPT !.status = "ok"]
    ELSE
    LET lbl     == labels[k]
        df_sel  == SelectSeq(frame, LAMBDA r : r.case_label = lbl)
        raw     == st.raw_profiles \o
                   [i \in DOMAIN df_sel |->
                       tagged_profile(df_sel[i], lbl, args.end_date, args.q_abnd)]
        eurs    == st.eur_list \o
                   [i \in DOMAIN df_sel |->
                       eur_row(df_sel[i], lbl, args.end_date, args.q_abnd)]
        picked  == last_n(raw, Len(df_sel))
        grouped == groupby_date_sum(concat(picked))
    IN  IF picked = <<>>
        THEN \* pd.concat([]) raises ValueError: No objects to concatenate
             [status |-> "ValueError", raw_profiles |-> raw, eur_list |-> eurs,
              profiles |-> st.profiles, df_grp |-> <<>>, lbl |-> lbl]
        ELSE IF df_sel = <<>>
        THEN \* df_sel["well_name"].iloc[0] raises IndexError
             [status |-> "IndexError", raw_profiles |-> raw, eur_list |-> eurs,
              profiles |-> st.profiles, df_grp |-> grouped, lbl |-> lbl]
        ELSE label_loop(frame, labels, k + 1, args,
                 [status |-> "running", raw_profiles |-> raw, eur_list |-> eurs,
                  profiles |-> Append(st.profiles,
                      [i \in DOMAIN grouped |->
                          [Date |-> grouped[i].Date, rate |-> grouped[i].rate,
                           case_label |-> lbl, well_name |-> df_sel[1].well_name]]),
                  df_grp |-> grouped, lbl |-> lbl])

\* the sum of the whole EUR column, repeated for every label
total_eur_ungrouped(eur_df) ==
    [c \in {row.Case : row \in Range(eur_df)} |->
        SeqSum([k \in DOMAIN eur_df |-> eur_df[k].EUR])]

\* eur_df.groupby("Case", as_index=False)["EUR"].sum()
total_eur(eur_df) ==
    [c \in {row.Case : row \in Range(eur_df)} |->
        SeqSum(LET sel == SelectSeq(eur_df, LAMBDA row : row.Case = c)
               IN  [k \in DOMAIN sel |-> sel[k].EUR])]

\* a cumulative sum over the whole frame, the labels not kept apart
cum_ungrouped(sum_df) ==
    [i \in DOMAIN sum_df |->
        [Date |-> sum_df[i].Date, rate |-> sum_df[i].rate,
         case_label |-> sum_df[i].case_label, well_name |-> sum_df[i].well_name,
         cum |-> SumTo([k \in DOMAIN sum_df |-> sum_df[k].rate], i)]]

\* sum_df["cum"] = sum_df.groupby("case_label")["rate"].cumsum()
cum_by_label(sum_df) ==
    [i \in DOMAIN sum_df |->
        [Date |-> sum_df[i].Date, rate |-> sum_df[i].rate,
         case_label |-> sum_df[i].case_label, well_name |-> sum_df[i].well_name,
         cum |-> SumTo([k \in DOMAIN sum_df |->
                           IF sum_df[k].case_label = sum_df[i].case_label
                           THEN sum_df[k].rate ELSE 0], i)]]

\* what a run shows before forecast_outputs is called
NoOutput == [status |-> "none"]

\* forecast_outputs without the test "if not labels"
forecast_outputs_unguarded(frame, labels, end_date, q_abnd) ==
    LET args == [end_date |-> end_date, q_abnd |-> q_abnd]
        res  == label_loop(frame, labels, 1, args,
                   [status |-> "running", raw_profiles |-> <<>>,
                    eur_list |-> <<>>, profiles |-> <<>>, df_grp |-> <<>>,
                    lbl |-> <<>>])
    IN  IF res.status # "ok" THEN res
        ELSE [status |-> "ok",
              eur_df |-> res.eur_list,
              total_eur |-> total_eur(res.eur_list),
              sum_df |-> cum_by_label(concat(res.profiles)),
              raw_df |-> concat(res.raw_profiles),
              raw_profiles |-> res.raw_profiles]

\* forecast_outputs that reads the case rows from the table itself, not from the
\* frame it is given
forecast_outputs_reads_store(frame, labels, end_date, q_abnd) ==
    IF labels = <<>> THEN [status |-> "warning"]
    ELSE forecast_outputs_unguarded(load_cases(db), labels, end_date, q_abnd)

\* forecast_outputs(cases_df, labels, end_date, q_abnd): what the page shows.
\* status: "warning" (no label selected), "ok" (tables and charts rendered), or the
\* exception that ended the run, with the local variables at the raise.
forecast_outputs(frame, labels, end_date, q_abnd) ==
    IF labels = <<>> THEN [status |-> "warning"]
    ELSE LET args == [end_date |-> end_date, q_abnd |-> q_abnd]
             res  == label_loop(frame, labels, 1, args,
                        [status |-> "running", raw_profiles |-> <<>>,
                         eur_list |-> <<>>, profiles |-> <<>>, df_grp |-> <<>>,
                         lbl |-> <<>>])
         IN  IF res.status # "ok" THEN res
             ELSE [status |-> "ok",
                   eur_df |-> res.eur_list,
                   total_eur |-> total_eur(res.eur_list),
                   sum_df |-> cum_by_label(concat(res.profiles)),
                   raw_df |-> concat(res.raw_profiles),
                   raw_profiles |-> res.raw_profiles]

(***************************************************************************)
(* Inputs of the page.                                                     *)
(***************************************************************************)
WellA == <<"A">>
WellB == <<"B">>
LabelX == <<"X">>
LabelY == <<"Y">>

\* rows a user may leave in the edited table
EditedRows ==
    { [well_name |-> WellA, case_label |-> LabelX, eff_date |-> 1,
       qi |-> Fx(100, 1), di |-> Fx(1, 2), b |-> 0],
      [well_name |-> WellB, case_label |-> LabelX, eff_date |-> 3,
       qi |-> Fx(100, 1), di |-> 0, b |-> 0],
      [well_name |-> WellA, case_label |-> LabelY, eff_date |-> 2,
       qi |-> Fx(100, 1), di |-> Fx(1, 10), b |-> Fx(1, 1)],
      [well_name |-> <<" ", "B", " ">>, case_label |-> <<" ", "Y">>, eff_date |-> 5,
       qi |-> Fx(10, 1), di |-> -Fx(1, 4), b |-> 0],
      [well_name |-> <<" ">>, case_label |-> LabelX, eff_date |-> 1,
       qi |-> Fx(100, 1), di |-> Fx(1, 2), b |-> 0],
      [well_name |-> WellB, case_label |-> LabelY, eff_date |-> 2,
       qi |-> NaN, di |-> Fx(1, 2), b |-> 0] }

Batches == UNION { [1..n -> EditedRows] : n \in 0..MaxBatch }

\* st.multiselect: each label at most once, in the order picked
LabelSelections ==
    { <<>>, <<LabelX>>, <<LabelY>>, <<LabelX, LabelY>>, <<LabelY, LabelX>> }

EndDates == {0, MaxDay - 2, MaxDay}

PageAbandonValues == {0, Fx(20, 1), Fx(50, 1)}

(***************************************************************************)
(* The engine: each action is one call of a pure function, made when no    *)
(* result is held; Return drops the result.                                *)
(***************************************************************************)
NoCall == [op |-> "none"]

NoPlot == [labels |-> <<>>, end_date |-> 0, q_abnd |-> 0]

\* the SQL assistant page before its first run: nothing asked, nothing executed
NoRun == [submit |-> FALSE, history |-> <<>>]

\* st.session_state of a new session: no key is set
NoSession == [key \in {} |-> FALSE]

\* IPR_APP.py has not run yet
NoScreen == [page |-> "none"]

\* apply_common_filters has not been called
NoFilter == [op |-> "none"]

Init ==
    /\ eng = NoCall
    /\ db = <<>>
    /\ cases_df = <<>>
    /\ pc = "start"
    /\ inserted = -1
    /\ plot = NoPlot
    /\ out = NoOutput
    /\ assistant = NoRun
    /\ state = NoSession
    /\ screen = NoScreen
    /\ filtered = NoFilter

pageVars == <<db, cases_df, pc, inserted, plot, out>>

ArpsRate ==
    /\ eng = NoCall
    /\ \E t \in 0..MaxT, p \in DeclineParams \cup PoleParams :
        eng' = [op |-> "arps_rate", t |-> t, qi |-> p[1], di |-> p[2], b |-> p[3],
                ret |-> arps_rate(t, p[1], p[2], p[3])]
    /\ UNCHANGED <<pageVars, otherPages>>

MakeProfile ==
    /\ eng = NoCall
    /\ \E c \in ProfileCalls :
        eng' = [op |-> "make_profile", call |-> c,
                ret |-> make_profile(c.start_date, c.end_date, c.qi, c.di, c.b,
                                     c.q_abnd)]
    /\ UNCHANGED <<pageVars, otherPages>>

\* eur_from_profile(prof) of the profile just built
EurOfProfile ==
    /\ eng.op = "make_profile"
    /\ eng' = [op |-> "eur_from_profile", call |-> eng.call, df |-> eng.ret,
               ret |-> eur_from_profile(eng.ret)]
    /\ UNCHANGED <<pageVars, otherPages>>

\* eur_from_profile of a hand-made frame
EurOfSample ==
    /\ eng = NoCall
    /\ \E df \in SampleFrames :
        eng' = [op |-> "eur_from_profile", call |-> NoCall, df |-> df,
                ret |-> eur_from_profile(df)]
    /\ UNCHANGED <<pageVars, otherPages>>

Return ==
    /\ eng # NoCall
    /\ eng' = NoCall
    /\ UNCHANGED <<pageVars, otherPages>>

NextEngine == ArpsRate \/ MakeProfile \/ EurOfProfile \/ EurOfSample \/ Return

SpecEngine == Init /\ [][NextEngine]_vars

(***************************************************************************)
(* The page: one script run loads the cases, then saves an edited batch or *)
(* plots a selection; the next interaction runs the script again.          *)
(***************************************************************************)
\* cases_df = load_cases(conn) at the top of a run
LoadCases ==
    /\ pc # "loaded"
    /\ cases_df' = load_cases(db)
    /\ pc' = "loaded"
    /\ inserted' = -1
    /\ plot' = NoPlot
    /\ out' = NoOutput
    /\ UNCHANGED <<eng, db, otherPages>>

\* "Save Cases": insert_cases(conn, edited)
InsertCases ==
    /\ pc = "loaded"
    /\ \E edited \in Batches, fails \in SUBSET (1..MaxBatch) :
        LET res == insert_cases(db, edited, fails)
        IN  /\ Len(res[1]) <= MaxCases
            /\ db' = res[1]
            /\ inserted' = res[2]
    /\ pc' = "done"
    /\ UNCHANGED <<eng, cases_df, plot, out, otherPages>>

\* "Generate Plot": forecast_outputs(cases_df, labels, end_date, q_abnd).  The
\* function takes the labels as a parameter: any selection is tried, also one of a
\* label that no loaded case row carries.
ForecastOutputs ==
    /\ pc = "loaded"
    /\ \E labels \in LabelSelections, end_date \in EndDates, q_abnd \in PageAbandonValues :
        /\ plot' = [labels |-> labels, end_date |-> end_date, q_abnd |-> q_abnd]
        /\ out' = forecast_outputs(cases_df, labels, end_date, q_abnd)
    /\ pc' = "done"
    /\ UNCHANGED <<eng, db, cases_df, inserted, otherPages>>

Next == LoadCases \/ InsertCases \/ ForecastOutputs

Spec == Init /\ [][Next]_vars

(***************************************************************************)
(* The case store seen through its functions: insert_cases, load_cases,    *)
(* make_profile and forecast_outputs called in any order, each call held   *)
(* in eng with its arguments until Return.                                 *)
(***************************************************************************)
\* n = 4: the rows of the empty template of add_cases_section
TemplateRows == 4

ValidRowA ==
    [well_name |-> WellA, case_label |-> LabelX, eff_date |-> 1,
     qi |-> Fx(100, 1), di |-> Fx(1, 2), b |-> 0]

\* a row typed with blanks around the well name and the label
ValidRowPadded ==
    [well_name |-> <<" ", "B", " ">>, case_label |-> <<" ", "Y">>, eff_date |-> 5,
     qi |-> Fx(10, 1), di |-> -Fx(1, 4), b |-> 0]

StoreValidRows == {ValidRowA, ValidRowPadded}

\* rows of the editor: the valid ones, a well name of blanks, an empty label
StoreRows ==
    StoreValidRows
    \cup { [ValidRowA EXCEPT !.well_name = <<" ">>],
           [ValidRowPadded EXCEPT !.case_label = <<>>] }

\* a well name cell left empty: never filled in, cleared, or filled with a blank
EmptyNames == {None, <<>>, <<" ">>}

\* a full template: one row with an empty well name, the others valid
TemplateBatches ==
    { [i \in 1..TemplateRows |->
          IF i = p THEN [ValidRowA EXCEPT !.well_name = e]
          ELSE IF i % 2 = 0 THEN ValidRowPadded ELSE ValidRowA]
      : p \in 1..TemplateRows, e \in EmptyNames }

StoreBatches == UNION { [1..n -> StoreRows] : n \in 0..MaxBatch } \cup TemplateBatches

\* insert_cases(conn, edited); execute raises sqlite3.Error for the iterated rows
\* at the positions in fails
InsertCasesCall ==
    /\ eng = NoCall
    /\ \E edited \in StoreBatches :
       \E fails \in SUBSET (1..Len(edited)) :
           LET res == insert_cases(db, edited, fails)
           IN  /\ Len(res[1]) <= MaxCases
               /\ db' = res[1]
               /\ eng' = [op |-> "insert_cases", edited |-> edited, fails |-> fails,
                          before |-> db, ret |-> res[2]]
    /\ UNCHANGED <<cases_df, pc, inserted, plot, out, otherPages>>

\* cases_df = load_cases(conn)
LoadCasesCall ==
    /\ eng = NoCall
    /\ cases_df' = load_cases(db)
    /\ eng' = [op |-> "load_cases", ret |-> load_cases(db)]
    /\ UNCHANGED <<db, pc, inserted, plot, out, otherPages>>

\* make_profile for a row of the loaded frame, as forecast_outputs calls it
MakeProfileCall ==
    /\ eng = NoCall
    /\ \E i \in DOMAIN cases_df, end_date \in EndDates, q_abnd \in PageAbandonValues :
        LET r == cases_df[i]
        IN  eng' = [op |-> "make_profile",
                    call |-> [start_date |-> r.eff_date, end_date |-> end_date,
                              qi |-> r.qi, di |-> r.di, b |-> r.b, q_abnd |-> q_abnd],
                    ret |-> make_profile(r.eff_date, end_date, r.qi, r.di, r.b, q_abnd)]
    /\ UNCHANGED <<pageVars, otherPages>>

\* forecast_outputs(cases_df, labels, end_date, q_abnd) on the loaded frame
ForecastOutputsCall ==
    /\ eng = NoCall
    /\ \E labels \in LabelSelections, end_date \in EndDates, q_abnd \in PageAbandonValues :
        eng' = [op |-> "forecast_outputs", labels |-> labels, end_date |-> end_date,
                q_abnd |-> q_abnd,
                ret |-> forecast_outputs(cases_df, labels, end_date, q_abnd)]
    /\ UNCHANGED <<pageVars, otherPages>>

NextStore ==
    InsertCasesCall \/ LoadCasesCall \/ MakeProfileCall \/ EurOfProfile
        \/ ForecastOutputsCall \/ Return

SpecStore == Init /\ [][NextStore]_vars

(***************************************************************************)
(* Calling twice: the result of one forecast_outputs call is kept, with    *)
(* its arguments, while any other calls are made; a later call with the    *)
(* same arguments is then compared with it.                                *)
(***************************************************************************)
\* the selections whose first result is kept
KeptSelections == {<<LabelX>>, <<LabelY, LabelX>>}

\* the caller keeps what forecast_outputs has just shown
KeepForecast ==
    /\ eng.op = "forecast_outputs"
    /\ out = NoOutput
    /\ eng.labels \in KeptSelections
    /\ eng.end_date = MaxDay
    /\ eng.q_abnd = 0
    /\ out' = eng.ret
    /\ plot' = [labels |-> eng.labels, end_date |-> eng.end_date,
                q_abnd |-> eng.q_abnd, cases |-> cases_df]
    /\ eng' = NoCall
    /\ UNCHANGED <<db, cases_df, pc, inserted, otherPages>>

\* insert_cases with one edited row and no database error
InsertOneRow == InsertCasesCall /\ Len(eng'.edited) = 1 /\ eng'.fails = {}

\* forecast_outputs with an abandonment rate of 0
ForecastAllDays == ForecastOutputsCall /\ eng'.q_abnd = 0

\* make_profile to the last day with an abandonment rate of 0
ProfileAllDays == MakeProfileCall /\ eng'.call.q_abnd = 0 /\ eng'.call.end_date = MaxDay

NextRepeat ==
    InsertOneRow \/ LoadCasesCall \/ ForecastAllDays \/ ProfileAllDays
        \/ KeepForecast \/ Return

SpecRepeat == Init /\ [][NextRepeat]_vars

(***************************************************************************)
(* app.py: the SQL assistant page.  Texts are tuples of characters.        *)
(***************************************************************************)
\* the most queries a session passes to read_sql_query
MaxQueries == 2

ERROR_MESSAGE == "I don't have this information. I will ask Engineer Abdelrahman; he is the one who created me and get back to you."

Lower ==
    <<"a", "b", "c", "d", "e", "f", "g", "h", "i", "j", "k", "l", "m",
      "n", "o", "p", "q", "r", "s", "t", "u", "v", "w", "x", "y", "z">>

Upper ==
    <<"A", "B", "C", "D", "E", "F", "G", "H", "I", "J", "K", "L", "M",
      "N", "O", "P", "Q", "R", "S", "T", "U", "V", "W", "X", "Y", "Z">>

\* the character ` (a grave accent cannot be written in a string here)
Tick == "grave"

\* str.upper()
upper(str) ==
    [i \in DOMAIN str |->
        IF \E k \in DOMAIN Lower : Lower[k] = str[i]
        THEN Upper[CHOOSE k \in DOMAIN Lower : Lower[k] = str[i]]
        ELSE str[i]]

\* word in str
Contains(str, word) ==
    \E i \in 1..(Len(str) - Len(word) + 1) : SubSeq(str, i, i + Len(word) - 1) = word

RECURSIVE str_replace(_, _, _)
\* str.replace(old, new): every occurrence of old, from the left, not overlapping
str_replace(str, old, new) ==
    IF Len(str) < Len(old) THEN str
    ELSE IF SubSeq(str, 1, Len(old)) = old
         THEN new \o str_replace(SubSeq(str, Len(old) + 1, Len(str)), old, new)
         ELSE <<Head(str)>> \o str_replace(Tail(str), old, new)

\* forbidden_keywords = ["DROP", "DELETE", "INSERT", "UPDATE", "ALTER"]
forbidden_keywords ==
    { <<"D", "R", "O", "P">>,
      <<"D", "E", "L", "E", "T", "E">>,
      <<"I", "N", "S", "E", "R", "T">>,
      <<"U", "P", "D", "A", "T", "E">>,
      <<"A", "L", "T", "E", "R">> }

\* a check that looks for the keywords in the text as it is, not upper-cased
validate_sql_case_sensitive(query) ==
    ~\E word \in forbidden_keywords : Contains(query, word)

\* not any(word in query.upper() for word in forbidden_keywords)
validate_sql(query) ==
    ~\E word \in forbidden_keywords : Contains(upper(query), word)

\* client.messages.create raised: get_claude_response shows the error and
\* returns None
APIError == <<"APIError">>

\* a plain query: "SELECT 1"
R_Select ==
    <<"S", "E", "L", "E", "C", "T", " ", "1">>

\* the same query in a code fence: "```sql SELECT 1```"
R_Fenced ==
    <<Tick, Tick, Tick, "s", "q", "l", " ", "S", "E", "L", "E", "C", "T", " ", "1", Tick,
      Tick, Tick>>

\* the table list: the text sql is cut out of sqlite_master and put back: "SELECT name FROM sqlite_master"
R_Master ==
    <<"S", "E", "L", "E", "C", "T", " ", "n", "a", "m", "e", " ", "F", "R", "O", "M",
      " ", "s", "q", "l", "i", "t", "e", "_", "m", "a", "s", "t", "e", "r">>

\* a forbidden word in lower case: "drop table t"
R_Drop ==
    <<"d", "r", "o", "p", " ", "t", "a", "b", "l", "e", " ", "t">>

\* DELETE: "DELETE FROM t"
R_Delete ==
    <<"D", "E", "L", "E", "T", "E", " ", "F", "R", "O", "M", " ", "t">>

\* INSERT in mixed case: "Insert INTO t VALUES (1)"
R_Insert ==
    <<"I", "n", "s", "e", "r", "t", " ", "I", "N", "T", "O", " ", "t", " ", "V", "A",
      "L", "U", "E", "S", " ", "(", "1", ")">>

\* ALTER: "ALTER TABLE t ADD c"
R_Alter ==
    <<"A", "L", "T", "E", "R", " ", "T", "A", "B", "L", "E", " ", "t", " ", "A", "D",
      "D", " ", "c">>

\* a column name that holds a forbidden word: "SELECT updated FROM t"
R_Updated ==
    <<"S", "E", "L", "E", "C", "T", " ", "u", "p", "d", "a", "t", "e", "d", " ", "F",
      "R", "O", "M", " ", "t">>

\* DROP shows only after the text sql is cut out: "DROsqlP TABLE t"
R_DropSplit ==
    <<"D", "R", "O", "s", "q", "l", "P", " ", "T", "A", "B", "L", "E", " ", "t">>

\* a writing statement without a forbidden word: "REPLACE INTO t VALUES (1)"
R_Replace ==
    <<"R", "E", "P", "L", "A", "C", "E", " ", "I", "N", "T", "O", " ", "t", " ", "V",
      "A", "L", "U", "E", "S", " ", "(", "1", ")">>

\* an empty answer
R_Empty ==
    <<>>

\* an answer of blanks
R_Blank ==
    <<" ", " ">>

\* an empty code fence: "```sql```"
R_FenceOnly ==
    <<Tick, Tick, Tick, "s", "q", "l", Tick, Tick, Tick>>

\* what message.content[0].text may be
Responses ==
    { R_Select,
      R_Fenced,
      R_Master,
      R_Drop,
      R_Delete,
      R_Insert,
      R_Alter,
      R_Updated, R_DropSplit, R_Replace,
      R_Empty, R_Blank, R_FenceOnly }

\* get_claude_response(question, prompt) when the API answers with text, and
\* when it raises
get_claude_response(answer) ==
    IF answer = APIError THEN None
    ELSE LET sql1 == strip(answer)
             sql2 == strip(str_replace(str_replace(str_replace(sql1,
                         <<Tick, Tick, Tick>>, <<>>), <<"s", "q", "l">>, <<>>),
                         <<"S", "Q", "L">>, <<>>))
         IN  str_replace(sql2, <<"i", "t", "e", "_", "m", "a", "s", "t", "e", "r">>, <<"s", "q", "l", "i", "t", "e", "_", "m", "a", "s", "t", "e", "r">>)

\* what the user typed into the text area
Questions == {"", "Show total oil production", "delete the old data"}

\* read_sql_query(sql, DB_PATH): the rows, or the text of the sqlite3.Error
QueryResults == {"rows", "sqlite3.Error"}

\* one run of the script with the button pressed: the whole "if submit" block
Submit ==
    /\ Len(assistant.history) < MaxQueries
    /\ \E question \in Questions, answer \in Responses \cup {APIError},
          result \in QueryResults :
        LET sql == get_claude_response(answer)
        IN  IF sql = None \/ sql = <<>> \/ ~validate_sql(sql)
            THEN \* error_placeholder.error(ERROR_MESSAGE); st.stop()
                 /\ result = "rows"
                 /\ assistant' = [submit |-> TRUE, question |-> question,
                                  answer |-> answer, sql |-> sql,
                                  error |-> ERROR_MESSAGE, code |-> None,
                                  executed |-> <<>>, view |-> "stopped",
                                  history |-> assistant.history]
            ELSE \* st.code(sql); result = read_sql_query(sql, DB_PATH)
                 assistant' = [submit |-> TRUE, question |-> question,
                               answer |-> answer, sql |-> sql,
                               error |-> IF result = "rows" THEN "" ELSE result,
                               code |-> sql,
                               executed |-> <<sql>>,
                               view |-> IF result = "rows" THEN "results"
                                        ELSE "stopped",
                               history |-> Append(assistant.history, sql)]
    /\ UNCHANGED <<eng, pageVars, state, screen, filtered>>

\* a run of the script without the button pressed: only the form is drawn
Idle ==
    /\ assistant.submit
    /\ assistant' = [submit |-> FALSE, history |-> assistant.history]
    /\ UNCHANGED <<eng, pageVars, state, screen, filtered>>

NextAssistant == Submit \/ Idle

SpecAssistant == Init /\ [][NextAssistant]_vars

(***************************************************************************)
(* IPR_APP.py: the login gate.  One action is one run of the script.       *)
(***************************************************************************)
\* USERS = {"test": "ipr123", "user": "password123"}
USERS == [test |-> "ipr123", user |-> "password123"]

\* a check of the user name only
authenticate_known_user(username, password) == username \in DOMAIN USERS

\* USERS.get(username) == password; get gives None for a name that is no key,
\* and None equals no text of the password field
authenticate(username, password) ==
    IF username \in DOMAIN USERS THEN USERS[username] = password ELSE FALSE

\* getattr(state, 'authenticated', False)
IsAuthenticated(session) ==
    IF "authenticated" \in DOMAIN session THEN session.authenticated ELSE FALSE

\* what may be typed into the two fields of the login form
Usernames == {"test", "user", "admin", ""}

Passwords == {"ipr123", "password123", "wrong", ""}

\* how a run of the login page was started: by "Login", by "Clear Cache", or by
\* anything else (the first run of a session, a rerun)
LoginButtons == {"none", "login", "clear_cache"}

\* the files of the pages offered by st.navigation(sections)
Pages ==
    {"metrics.py", "prod_differ.py", "2IPR_analysis.py", "dca.py", "cases_trial.py",
     "bi_weekly.py", "file_vis.py", "app.py"}

\* a run that st.rerun() started carries no pressed button
IsRerun == screen.page # "none" /\ screen.rerun

\* a run of the script that finds authenticated missing or false: login_page()
RunLoginPage ==
    /\ ~IsAuthenticated(state)
    /\ \E button \in LoginButtons, username \in Usernames, password \in Passwords :
        /\ IsRerun => button = "none"
        /\ button = "none" => username = "" /\ password = ""
        /\ IF button = "login" /\ authenticate(username, password)
           THEN \* state.authenticated = True; state.username = username; st.rerun()
                /\ state' = ("authenticated" :> TRUE) @@ ("username" :> username)
                               @@ state
                /\ screen' = [page |-> "login", checked |-> FALSE,
                              button |-> button, username |-> username,
                              password |-> password, message |-> "",
                              navigation |-> FALSE, rerun |-> TRUE]
           ELSE /\ state' = state
                /\ screen' = [page |-> "login", checked |-> FALSE,
                              button |-> button, username |-> username,
                              password |-> password,
                              message |-> IF button = "login"
                                          THEN "Invalid username or password"
                                          ELSE IF button = "clear_cache"
                                          THEN "Cache cleared successfully!"
                                          ELSE "",
                              navigation |-> FALSE, rerun |-> FALSE]
    /\ UNCHANGED <<eng, pageVars, assistant, filtered>>

\* a run of the script that finds authenticated true: main_app()
RunMainApp ==
    /\ IsAuthenticated(state)
    /\ \E logout \in BOOLEAN, selected \in Pages :
        /\ IsRerun => ~logout
        /\ logout => selected = "metrics.py"
        /\ IF logout
           THEN \* state.authenticated = False; st.rerun(): the run ends in the sidebar
                /\ state' = ("authenticated" :> FALSE) @@ state
                /\ screen' = [page |-> "main_app", checked |-> TRUE,
                              welcome |-> state.username, logout |-> TRUE,
                              navigation |-> FALSE, selected |-> "",
                              rerun |-> TRUE]
           ELSE \* st.navigation(sections); pg.run()
                /\ state' = state
                /\ screen' = [page |-> "main_app", checked |-> TRUE,
                              welcome |-> state.username, logout |-> FALSE,
                              navigation |-> TRUE, selected |-> selected,
                              rerun |-> FALSE]
    /\ UNCHANGED <<eng, pageVars, assistant, filtered>>

\* the browser opens a new session: st.session_state starts empty
NewSession ==
    /\ screen # NoScreen
    /\ state' = NoSession
    /\ screen' = NoScreen
    /\ UNCHANGED <<eng, pageVars, assistant, filtered>>

NextLogin == RunLoginPage \/ RunMainApp \/ NewSession

SpecLogin == Init /\ [][NextLogin]_vars

(***************************************************************************)
(* apply_common_filters of metrics.py and of 2IPR_analysis.py.  A frame is *)
(* its set of columns and its rows; a selection is the set of the values   *)
(* picked; a missing date is NaN.                                          *)
(***************************************************************************)
\* the most rows of a frame passed to apply_common_filters
MaxFrame == 2

\* the filter with the end of the date range left out
apply_common_filters_open_end(df, selected_date_range, selected_fields, selected_well_bores, selected_zones, selected_types) ==
    LET by_date  == SelectSeq(df.rows, LAMBDA row :
                        /\ FGe(row.date, selected_date_range[1])
                        /\ FLt(row.date, selected_date_range[2]))
        by_field == IF selected_fields # {}
                    THEN SelectSeq(by_date, LAMBDA row : row.field \in selected_fields)
                    ELSE by_date
        by_well  == IF selected_well_bores # {}
                    THEN SelectSeq(by_field,
                                   LAMBDA row : row.well_bore \in selected_well_bores)
                    ELSE by_field
        by_zone  == IF selected_zones # {}
                    THEN SelectSeq(by_well, LAMBDA row : row.zone \in selected_zones)
                    ELSE by_well
        by_type  == IF selected_types # {} /\ "type" \in df.columns
                    THEN SelectSeq(by_zone, LAMBDA row : row.type \in selected_types)
                    ELSE by_zone
    IN  [filtered_df |-> [columns |-> df.columns, rows |-> by_type], df |-> df]

\* metrics.py: the filtered frame, and the frame passed in after the call
apply_common_filters(df, selected_date_range, selected_fields, selected_well_bores, selected_zones, selected_types) ==
    LET by_date  == SelectSeq(df.rows, LAMBDA row :
                        /\ FGe(row.date, selected_date_range[1])
                        /\ FGe(selected_date_range[2], row.date))
        by_field == IF selected_fields # {}
                    THEN SelectSeq(by_date, LAMBDA row : row.field \in selected_fields)
                    ELSE by_date
        by_well  == IF selected_well_bores # {}
                    THEN SelectSeq(by_field,
                                   LAMBDA row : row.well_bore \in selected_well_bores)
                    ELSE by_field
        by_zone  == IF selected_zones # {}
                    THEN SelectSeq(by_well, LAMBDA row : row.zone \in selected_zones)
                    ELSE by_well
        by_type  == IF selected_types # {} /\ "type" \in df.columns
                    THEN SelectSeq(by_zone, LAMBDA row : row.type \in selected_types)
                    ELSE by_zone
    IN  [filtered_df |-> [columns |-> df.columns, rows |-> by_type], df |-> df]

\* 2IPR_analysis.py: the same function, defined again in that file
apply_common_filters_2IPR(df, selected_date_range, selected_fields, selected_well_bores, selected_zones, selected_types) ==
    LET by_date  == SelectSeq(df.rows, LAMBDA row :
                        /\ FGe(row.date, selected_date_range[1])
                        /\ FGe(selected_date_range[2], row.date))
        by_field == IF selected_fields # {}
                    THEN SelectSeq(by_date, LAMBDA row : row.field \in selected_fields)
                    ELSE by_date
        by_well  == IF selected_well_bores # {}
                    THEN SelectSeq(by_field,
                                   LAMBDA row : row.well_bore \in selected_well_bores)
                    ELSE by_field
        by_zone  == IF selected_zones # {}
                    THEN SelectSeq(by_well, LAMBDA row : row.zone \in selected_zones)
                    ELSE by_well
        by_type  == IF selected_types # {} /\ "type" \in df.columns
                    THEN SelectSeq(by_zone, LAMBDA row : row.type \in selected_types)
                    ELSE by_zone
    IN  [filtered_df |-> [columns |-> df.columns, rows |-> by_type], df |-> df]

\* rows of the production data: they have a type
TypedRows ==
    { [date |-> 1, field |-> "F1", well_bore |-> "W1", zone |-> "Z1", type |-> "producer"],
      [date |-> 2, field |-> "F1", well_bore |-> "W2", zone |-> "Z2", type |-> "WI"],
      [date |-> 3, field |-> "F2", well_bore |-> "W1", zone |-> "Z2", type |-> "producer"],
      [date |-> NaN, field |-> "F1", well_bore |-> "W1", zone |-> "Z1", type |-> "WI"] }

\* rows of the fluid level data: a frame without the column type
UntypedRows ==
    { [date |-> 1, field |-> "F1", well_bore |-> "W2", zone |-> "Z2"],
      [date |-> 2, field |-> "F1", well_bore |-> "W1", zone |-> "Z1"],
      [date |-> 3, field |-> "F2", well_bore |-> "W2", zone |-> "Z2"] }

CommonColumns == {"date", "field", "well_bore", "zone"}

Frames ==
    UNION { { [columns |-> CommonColumns \cup {"type"}, rows |-> rows]
              : rows \in [1..n -> TypedRows] }
            \cup { [columns |-> CommonColumns, rows |-> rows]
                    : rows \in [1..n -> UntypedRows] }
          : n \in 0..MaxFrame }

\* the slider's pair of dates
DateRanges == { <<1, 3>>, <<2, 2>>, <<2, 3>>, <<3, 1>> }

FieldSelections == { {}, {"F1"}, {"F1", "F2"} }

WellBoreSelections == { {}, {"W1"} }

ZoneSelections == { {}, {"Z2"} }

TypeSelections == { {}, {"WI"} }

\* the two files that define the function
FilterModules == {"metrics.py", "2IPR_analysis.py"}

\* one call of apply_common_filters
ApplyCommonFilters ==
    /\ filtered = NoFilter
    /\ \E module \in FilterModules, df \in Frames, selected_date_range \in DateRanges,
          selected_fields \in FieldSelections,
          selected_well_bores \in WellBoreSelections,
          selected_zones \in ZoneSelections, selected_types \in TypeSelections :
        LET res == IF module = "metrics.py"
                   THEN apply_common_filters(df, selected_date_range, selected_fields,
                            selected_well_bores, selected_zones, selected_types)
                   ELSE apply_common_filters_2IPR(df, selected_date_range,
                            selected_fields, selected_well_bores, selected_zones,
                            selected_types)
        IN  filtered' = [op |-> "apply_common_filters", module |-> module, df |-> df,
                         selected_date_range |-> selected_date_range,
                         selected_fields |-> selected_fields,
                         selected_well_bores |-> selected_well_bores,
                         selected_zones |-> selected_zones,
                         selected_types |-> selected_types,
                         ret |-> res.filtered_df, df_after |-> res.df]
    /\ UNCHANGED <<eng, pageVars, assistant, state, screen>>

\* the result is dropped
ReturnFilter ==
    /\ filtered # NoFilter
    /\ filtered' = NoFilter
    /\ UNCHANGED <<eng, pageVars, assistant, state, screen>>

NextFilter == ApplyCommonFilters \/ ReturnFilter

SpecFilter == Init /\ [][NextFilter]_vars

(***************************************************************************)
(* Properties of forecast_outputs (checked under Spec).                    *)
(***************************************************************************)
\* the case rows of label lbl in the loaded frame
WellsOf(lbl) == SelectSeq(cases_df, LAMBDA r : r.case_label = lbl)

\* the profile of case row r under the plotted end date and abandonment rate
ProfileOf(r) == make_profile(r.eff_date, plot.end_date, r.qi, r.di, r.b, plot.q_abnd)

\* the retained dates of profile prof
DatesOf(prof) == {prof[i].Date : i \in DOMAIN prof}

\* the rate profile prof has on date d, 0 when it has no sample there
RateOn(prof, d) ==
    IF d \in DatesOf(prof) THEN (CHOOSE row \in Range(prof) : row.Date = d).rate ELSE 0

\* the rows of the summed series that carry label lbl
SummedOf(lbl) == SelectSeq(out.sum_df, LAMBDA row : row.case_label = lbl)

\* C1: for every selected label the summed series has exactly one row per date of
\* the union of the retained dates of the label's wells, and the rate on a date is
\* the sum of the rates of the wells that have a sample on it (absent wells add 0).
C1_ZeroFill ==
    out.status = "ok" =>
        \A k \in DOMAIN plot.labels :
            LET wells == WellsOf(plot.labels[k])
                dates == UNION {DatesOf(ProfileOf(wells[i])) : i \in DOMAIN wells}
                sub   == SummedOf(plot.labels[k])
            IN  /\ Len(sub) = Cardinality(dates)
                /\ {sub[i].Date : i \in DOMAIN sub} = dates
                /\ \A i \in DOMAIN sub :
                       sub[i].rate =
                           SeqSum([w \in DOMAIN wells |->
                                      RateOn(ProfileOf(wells[w]), sub[i].Date)])

\* a label with two wells: a date only the first has, a date both have, and a date
\* only the second has, each with the summed rate the claim gives
C1_Witness ==
    /\ out.status = "ok"
    /\ \E k \in DOMAIN plot.labels :
           LET wells == WellsOf(plot.labels[k])
               sub   == SummedOf(plot.labels[k])
           IN  /\ Len(wells) = 2
               /\ \E i, j, l \in DOMAIN sub :
                      LET p1 == ProfileOf(wells[1])
                          p2 == ProfileOf(wells[2])
                      IN  /\ sub[i].Date \in DatesOf(p1) \ DatesOf(p2)
                          /\ sub[i].rate = RateOn(p1, sub[i].Date)
                          /\ sub[j].Date \in DatesOf(p1) \cap DatesOf(p2)
                          /\ sub[j].rate = RateOn(p1, sub[j].Date) + RateOn(p2, sub[j].Date)
                          /\ sub[l].Date \in DatesOf(p2) \ DatesOf(p1)
                          /\ sub[l].rate = RateOn(p2, sub[l].Date)

\* C2: per label, the cumulative column of the summed series is the running sum of
\* the label's summed rate in ascending date order, so that its value on the
\* label's last date is the sum of the total retained rate of each of its wells.
C2_CumulativePerLabel ==
    out.status = "ok" =>
        \A k \in DOMAIN plot.labels :
            LET wells == WellsOf(plot.labels[k])
                sub   == SummedOf(plot.labels[k])
            IN  /\ \A i \in DOMAIN sub :
                       /\ i > 1 => sub[i - 1].Date < sub[i].Date
                       /\ sub[i].cum = (IF i = 1 THEN 0 ELSE sub[i - 1].cum) + sub[i].rate
                /\ sub # <<>> =>
                       sub[Len(sub)].cum =
                           SeqSum([w \in DOMAIN wells |->
                               LET prof == ProfileOf(wells[w])
                               IN  SeqSum([i \in DOMAIN prof |-> prof[i].rate])])

\* two labels are plotted, each with rows in the summed series, the second of them
\* with two wells
C2_Witness ==
    /\ out.status = "ok"
    /\ Len(plot.labels) = 2
    /\ Len(SummedOf(plot.labels[1])) > 1
    /\ Len(SummedOf(plot.labels[2])) > 1
    /\ Len(WellsOf(plot.labels[2])) = 2
    /\ \A w \in 1..2 : ProfileOf(WellsOf(plot.labels[2])[w]) # <<>>

\* C3 (as claimed): an empty date range, an empty label selection and a selection
\* with a label that matches no case row are not errors: the call completes
\* without raising, and the unmatched input has no rows in any output.
C3_EmptyInputsNotErrors ==
    pc = "done" /\ inserted = -1 =>
        /\ out.status \in {"ok", "warning"}
        /\ plot.labels = <<>> => out.status = "warning"
        /\ out.status = "ok" =>
               \A k \in DOMAIN plot.labels :
                   (\A i \in DOMAIN WellsOf(plot.labels[k]) :
                        ProfileOf(WellsOf(plot.labels[k])[i]) = <<>>)
                   => SummedOf(plot.labels[k]) = <<>>

(***************************************************************************)
(* Properties of the engine functions (checked under SpecEngine).          *)
(***************************************************************************)
\* the rate make_profile computes for calendar day d of call c
RateOfDay(c, d) == asfloat(arps_rate(d - c.start_date, c.qi, c.di, c.b))

\* the days of the range of call c whose rate is at or above the abandonment rate
KeptDays(c) ==
    {d \in c.start_date..c.end_date : FGe(RateOfDay(c, d), c.q_abnd)}

Maximum(S) == CHOOSE m \in S : \A x \in S : x <= m

\* C4: make_profile returns no row with a rate below the abandonment rate, keeps
\* every day whose rate is at or above it (a rate equal to it included), and its
\* last retained date is the last day of the range with a rate at or above it.
C4_AbandonmentTruncation ==
    eng.op = "make_profile" =>
        LET c == eng.call
        IN  /\ \A i \in DOMAIN eng.ret : ~FLt(eng.ret[i].rate, c.q_abnd)
            /\ \A d \in KeptDays(c) :
                   \E i \in DOMAIN eng.ret :
                       eng.ret[i].Date = d /\ eng.ret[i].rate = RateOfDay(c, d)
            /\ (eng.ret = <<>>) = (KeptDays(c) = {})
            /\ eng.ret # <<>> => eng.ret[Len(eng.ret)].Date = Maximum(KeptDays(c))

\* the example: qi = 100, di = 0.01, b = 0, threshold 50 over 366 days ends on
\* day 69, the last day at or above 50
C4_Witness ==
    /\ eng.op = "make_profile"
    /\ eng.call = ExampleCall
    /\ Len(eng.ret) = 70
    /\ eng.ret[70].Date = 69
    /\ FGe(RateOfDay(ExampleCall, 69), Fx(50, 1))
    /\ \A d \in 70..365 : FLt(RateOfDay(ExampleCall, d), Fx(50, 1))

\* C5: every daily sample is filtered on its own: the retained rows are exactly
\* the days with a rate at or above the threshold, in date order, so a day at or
\* above it that follows a day below it is retained.
C5_IndependentFilter ==
    eng.op = "make_profile" =>
        LET c == eng.call
        IN  /\ [i \in DOMAIN eng.ret |-> eng.ret[i].Date] = Ascending(KeptDays(c))
            /\ \A i \in DOMAIN eng.ret :
                   eng.ret[i].rate = RateOfDay(c, eng.ret[i].Date)
            /\ \A d1, d2 \in c.start_date..c.end_date :
                   /\ d1 < d2
                   /\ FLt(RateOfDay(c, d1), c.q_abnd)
                   /\ FGe(RateOfDay(c, d2), c.q_abnd)
                   => \E i \in DOMAIN eng.ret : eng.ret[i].Date = d2

\* a growing rate: the first days are below the threshold and dropped, a later
\* day is at or above it and retained
C5_Witness ==
    /\ eng.op = "make_profile"
    /\ \E d1, d2 \in eng.call.start_date..eng.call.end_date :
           /\ d1 < d2
           /\ FLt(RateOfDay(eng.call, d1), eng.call.q_abnd)
           /\ FGe(RateOfDay(eng.call, d2), eng.call.q_abnd)
           /\ d1 \notin DatesOf(eng.ret)
           /\ d2 \in DatesOf(eng.ret)

\* C6: the cumulative value of a retained row is the cumulative value of the
\* retained row before it plus the row's own rate (the first row: its rate), so
\* discarded days add nothing.
C6_CumulativeOfRetained ==
    eng.op = "make_profile" =>
        \A i \in DOMAIN eng.ret :
            eng.ret[i].cum = (IF i = 1 THEN 0 ELSE eng.ret[i - 1].cum) + eng.ret[i].rate

\* a profile whose first day was discarded and that retains at least two rows
C6_Witness ==
    /\ eng.op = "make_profile"
    /\ Len(eng.ret) >= 2
    /\ eng.call.start_date \notin DatesOf(eng.ret)
    /\ eng.ret[1].cum = eng.ret[1].rate
    /\ eng.ret[2].cum = eng.ret[1].rate + eng.ret[2].rate

\* the rates of frame df
RatesOf(df) == [i \in DOMAIN df |-> df[i].rate]

\* half of the first rate + the interior rates + half of the last rate, doubled
TwiceEndpointRule(df) ==
    df[1].rate + 2 * SeqSum(SubSeq(RatesOf(df), 2, Len(df) - 1)) + df[Len(df)].rate

\* C7 (as claimed): eur_from_profile of every non-empty profile is the sum of the
\* interior rates plus half of the first and half of the last rate.
C7_EndpointRuleAlways ==
    eng.op = "eur_from_profile" /\ eng.df # <<>> =>
        2 * eng.ret = TwiceEndpointRule(eng.df)

\* C7 (amended): eur_from_profile of a non-empty profile is the trapezoidal
\* integral with spacing 1 between consecutive retained samples, the sum of the
\* means of each two neighbouring rates; with two samples or more that is the sum
\* of the interior rates plus half of the first and half of the last rate, not the
\* plain sum, and with one sample it is 0.
C7_Trapezoid ==
    eng.op = "eur_from_profile" /\ eng.df # <<>> =>
        /\ 2 * eng.ret = SeqSum([i \in 1..(Len(eng.df) - 1) |->
                                    eng.df[i].rate + eng.df[i + 1].rate])
        /\ Len(eng.df) >= 2 => 2 * eng.ret = TwiceEndpointRule(eng.df)
        /\ Len(eng.df) = 1 => eng.ret = 0
        /\ RatesOf(eng.df) = <<Fx(10, 1), Fx(20, 1), Fx(10, 1)>> => eng.ret = Fx(30, 1)

\* rates [10, 20, 10] give 30, not the plain sum 40
C7_Witness ==
    /\ eng.op = "eur_from_profile"
    /\ RatesOf(eng.df) = <<Fx(10, 1), Fx(20, 1), Fx(10, 1)>>
    /\ eng.ret = Fx(30, 1)
    /\ eng.ret # SeqSum(RatesOf(eng.df))

\* C8: make_profile with an end date before the start date returns an empty
\* profile, and eur_from_profile of an empty profile is 0.0.
C8_EmptyRange ==
    /\ eng.op = "make_profile" /\ eng.call.end_date < eng.call.start_date
           => eng.ret = <<>>
    /\ eng.op = "eur_from_profile" /\ eng.df = <<>> => eng.ret = 0
    /\ eng.op = "eur_from_profile" /\ eng.call # NoCall
       /\ eng.call.end_date < eng.call.start_date
           => eng.df = <<>> /\ eng.ret = 0

\* the EUR of the profile of an empty date range has been computed
C8_Witness ==
    /\ eng.op = "eur_from_profile"
    /\ eng.call # NoCall
    /\ eng.call.end_date < eng.call.start_date
    /\ eng.call.qi > 0
    /\ eng.df = <<>>
    /\ eng.ret = 0

\* C9: make_profile generates one sample per calendar day from the start date to
\* the end date inclusive, with t the number of days since the start date; with an
\* abandonment rate of 0 and non-negative rates the profile has
\* end - start + 1 rows with consecutive dates.
C9_OneSamplePerDay ==
    eng.op = "make_profile" =>
        LET c == eng.call
            n == IF c.end_date >= c.start_date THEN c.end_date - c.start_date + 1 ELSE 0
        IN  /\ \A i \in DOMAIN eng.ret :
                   /\ eng.ret[i].Date \in c.start_date..c.end_date
                   /\ eng.ret[i].rate =
                          asfloat(arps_rate(eng.ret[i].Date - c.start_date, c.qi, c.di, c.b))
            /\ (c.q_abnd = 0 /\ \A t \in 0..(n - 1) :
                                    FGe(arps_rate(t, c.qi, c.di, c.b), 0))
               => /\ Len(eng.ret) = n
                  /\ \A i \in 1..n : eng.ret[i].Date = c.start_date + i - 1

\* a range of several days, nothing abandoned: the first row is the start date
\* with the rate of t = 0 (qi), the last row is the end date
C9_Witness ==
    /\ eng.op = "make_profile"
    /\ eng.call.q_abnd = 0
    /\ eng.call.di > 0
    /\ eng.call.end_date > eng.call.start_date + 1
    /\ Len(eng.ret) = eng.call.end_date - eng.call.start_date + 1
    /\ eng.ret[1].Date = eng.call.start_date
    /\ eng.ret[1].rate = eng.call.qi
    /\ eng.ret[Len(eng.ret)].Date = eng.call.end_date

\* C10: for b = 0 arps_rate is qi * exp(-di * t) for every t >= 0; the exponential
\* branch is taken exactly when b = 0 (any other b gives the hyperbolic rate).
C10_ExponentialDecline ==
    eng.op = "arps_rate" =>
        /\ eng.b = 0 => eng.ret = FMul(eng.qi, FExp(-(eng.di * eng.t)))
        /\ eng.b # 0 =>
               eng.ret = FDiv(eng.qi, FPow(Scale + FMul(eng.b, eng.di) * eng.t,
                                           FDiv(Scale, eng.b)))
        /\ eng.b = 0 /\ eng.t = 0 => eng.ret = eng.qi
        /\ eng.b = 0 /\ eng.di = 0 => eng.ret = eng.qi

\* an exponential decline after some days: below qi, above 0
C10_Witness ==
    /\ eng.op = "arps_rate"
    /\ eng.b = 0
    /\ eng.di > 0
    /\ eng.t > 1
    /\ eng.qi > 0
    /\ eng.ret = FMul(eng.qi, FExp(-(eng.di * eng.t)))
    /\ eng.ret < eng.qi
    /\ eng.ret > 0

\* the harmonic example: qi = 1000, di = 0.001, b = 1
HarmonicExample == <<Fx(1000, 1), Fx(1, 1000), Fx(1, 1)>>

\* (1 + b*di*t) ** (1/b) for the exponents of the model: 1/b is 0.5, 1 or 2
HyperbolicDenominator(t, di, b) ==
    LET base == Scale + FMul(b, di) * t
    IN  CASE b = Fx(2, 1) -> FSqrt(base)
          [] b = Fx(1, 1) -> base
          [] b = Fx(1, 2) -> (base * base) \div Scale

\* C11: for b # 0 (b > 0, di >= 0, as the inputs of the function are specified)
\* arps_rate is qi / (1 + b*di*t) ^ (1/b); for b = 1, qi = 1000,
\* di = 0.001 it is 1000 at t = 0 and strictly decreasing in t: the rate at t is
\* below the rate at every earlier time.
C11_HyperbolicDecline ==
    eng.op = "arps_rate" /\ eng.b > 0 /\ eng.di >= 0 /\ ~IsNaN(eng.qi) =>
        /\ eng.ret = (eng.qi * Scale) \div HyperbolicDenominator(eng.t, eng.di, eng.b)
        /\ <<eng.qi, eng.di, eng.b>> = HarmonicExample =>
               /\ eng.t = 0 => eng.ret = Fx(1000, 1)
               /\ \A s \in 0..(eng.t - 1) :
                      eng.ret < arps_rate(s, eng.qi, eng.di, eng.b)

\* the harmonic example after some days: below the rate of the day before, which
\* is below 1000
C11_Witness ==
    /\ eng.op = "arps_rate"
    /\ <<eng.qi, eng.di, eng.b>> = HarmonicExample
    /\ eng.t > 1
    /\ eng.ret < arps_rate(eng.t - 1, eng.qi, eng.di, eng.b)
    /\ arps_rate(eng.t - 1, eng.qi, eng.di, eng.b) < Fx(1000, 1)
    /\ eng.ret = (Fx(1000, 1) * Scale) \div (Scale + eng.t)

\* C12: arps_rate returns qi for every t when di = 0, and returns qi at t = 0 for
\* every di >= 0 and b >= 0, in the exponential and in the hyperbolic branch; the
\* value is a number, no error stands in its place.
C12_ConstantRateAndTimeZero ==
    eng.op = "arps_rate" /\ ~IsNaN(eng.qi) /\ eng.di >= 0 /\ eng.b >= 0 =>
        /\ eng.di = 0 => eng.ret = eng.qi
        /\ eng.t = 0 => eng.ret = eng.qi
        /\ ~IsNaN(eng.ret)

\* a constant rate in the hyperbolic branch, some days after the start
C12_Witness ==
    /\ eng.op = "arps_rate"
    /\ eng.di = 0
    /\ eng.b \notin {0, Fx(1, 1)}
    /\ eng.t > 0
    /\ eng.qi > 0
    /\ eng.ret = eng.qi

\* a declining well at the start date, in the hyperbolic branch
C12_WitnessTimeZero ==
    /\ eng.op = "arps_rate"
    /\ eng.di > 0
    /\ eng.b > 0
    /\ eng.t = 0
    /\ eng.ret = eng.qi

(***************************************************************************)
(* Properties of the tables of forecast_outputs (checked under Spec).      *)
(***************************************************************************)
\* the case rows forecast_outputs visits: label by label in the order selected,
\* within a label in the order of the loaded frame
SelectedCases == concat([k \in DOMAIN plot.labels |-> WellsOf(plot.labels[k])])

\* x is y rounded to 2 decimals: a multiple of 0.01 at most 0.005 away
IsRounded2(x, y) ==
    /\ x % (Scale \div 100) = 0
    /\ 2 * (IF x >= y THEN x - y ELSE y - x) <= Scale \div 100

\* C13: a completed forecast_outputs has built exactly one raw profile and one
\* EUR row per case row with a selected label, in the order visited, and none
\* for a case row with another label: the EUR row carries the well, the label,
\* the effective date and the EUR of the case's profile rounded to 2 decimals;
\* every row of the raw profile carries the well and the label of its case.
C13_OnePerSelectedCase ==
    out.status = "ok" =>
        LET sel == SelectedCases
        IN  /\ Len(sel) = Cardinality({i \in DOMAIN cases_df :
                               cases_df[i].case_label \in Range(plot.labels)})
            /\ Len(out.raw_profiles) = Len(sel)
            /\ Len(out.eur_df) = Len(sel)
            /\ \A i \in DOMAIN sel :
                   LET prof == ProfileOf(sel[i])
                       raw  == out.raw_profiles[i]
                       row  == out.eur_df[i]
                   IN  /\ row.Well = sel[i].well_name
                       /\ row.Case = sel[i].case_label
                       /\ row.EffDate = sel[i].eff_date
                       /\ IsRounded2(row.EUR, eur_from_profile(prof))
                       /\ Len(raw) = Len(prof)
                       /\ \A j \in DOMAIN raw :
                              /\ raw[j].well_name = sel[i].well_name
                              /\ raw[j].case_label = sel[i].case_label
                              /\ raw[j].Date = prof[j].Date
                              /\ raw[j].rate = prof[j].rate
            /\ out.raw_df = concat(out.raw_profiles)

\* one label of two is selected; it has two case rows, a third row has the other
\* label; the EUR of a selected case is not a multiple of 0.01 before rounding
C13_Witness ==
    /\ out.status = "ok"
    /\ Len(plot.labels) = 1
    /\ Len(cases_df) = 3
    /\ Len(out.eur_df) = 2
    /\ Len(out.raw_profiles) = 2
    /\ out.raw_profiles[1] # <<>>
    /\ out.raw_profiles[1][1].well_name # out.raw_profiles[2][1].well_name
    /\ \E i \in 1..2 :
           out.eur_df[i].EUR # eur_from_profile(ProfileOf(SelectedCases[i]))

\* C14: the total EUR table of a completed forecast_outputs has one row per
\* selected label, and its EUR is the sum of the EUR values the per-well table
\* holds for the case rows of that label, one per case row.
C14_TotalPerLabel ==
    out.status = "ok" =>
        /\ DOMAIN out.total_eur = Range(plot.labels)
        /\ \A k \in DOMAIN plot.labels :
               LET lbl == plot.labels[k]
               IN  /\ out.total_eur[lbl] =
                          SeqSum([i \in DOMAIN out.eur_df |->
                                     IF out.eur_df[i].Case = lbl
                                     THEN out.eur_df[i].EUR ELSE 0])
                   /\ Cardinality({i \in DOMAIN out.eur_df : out.eur_df[i].Case = lbl})
                          = Len(WellsOf(lbl))

\* two labels are selected, one of them with two case rows of non-zero EUR: its
\* total is the sum of the two and the other label's EUR is not in it
C14_Witness ==
    /\ out.status = "ok"
    /\ Len(plot.labels) = 2
    /\ Len(out.eur_df) = 3
    /\ \A i \in 1..3 : out.eur_df[i].EUR > 0
    /\ \E i, j \in 1..3 :
           /\ i < j
           /\ out.eur_df[i].Case = out.eur_df[j].Case
           /\ out.total_eur[out.eur_df[i].Case] = out.eur_df[i].EUR + out.eur_df[j].EUR

\* forecast_outputs was called in this run and has ended
Plotted == pc = "done" /\ inserted = -1

\* C15: forecast_outputs with no label selected ends without an error and with
\* nothing but the warning: no profile, no EUR row, no table and no chart,
\* whatever the loaded cases, the end date and the abandonment rate are.
C15_NoLabelsNothingBuilt ==
    Plotted /\ plot.labels = <<>> =>
        /\ out.status = "warning"
        /\ DOMAIN out = {"status"}

\* cases are loaded and the plot is asked for without a label
C15_Witness ==
    /\ Plotted
    /\ plot.labels = <<>>
    /\ Len(cases_df) >= 2
    /\ plot.end_date >= cases_df[1].eff_date
    /\ out = [status |-> "warning"]

\* the columns date, case_label, rate and cumulative of a summed series
SeriesOf(df) ==
    [i \in DOMAIN df |-> [Date |-> df[i].Date, case_label |-> df[i].case_label,
                          rate |-> df[i].rate, cum |-> df[i].cum]]

\* case row r starts after the plotted end date
IsLate(r) == r.eff_date > plot.end_date

\* the loaded case list without the rows that start after the plotted end date
WithoutLate == SelectSeq(cases_df, LAMBDA r : ~IsLate(r))

\* C16: a selected case with eff_date after the end date has an empty profile and
\* adds nothing.  The call completes whenever every selected label has a case
\* row, late or not.  The EUR row of a late case is 0 and its raw profile is
\* empty; the summed series and the total EUR are those of the call on the case
\* list without the late cases; a label whose cases are all late has no row in
\* the summed series and a total EUR of 0.
C16_LateCaseAddsNothing ==
    /\ (Plotted /\ plot.labels # <<>>
            /\ \A k \in DOMAIN plot.labels : WellsOf(plot.labels[k]) # <<>>)
        => out.status = "ok"
    /\ out.status = "ok" =>
           LET alt == forecast_outputs(WithoutLate, plot.labels, plot.end_date,
                                       plot.q_abnd)
           IN  /\ \A i \in DOMAIN SelectedCases :
                      IsLate(SelectedCases[i]) =>
                          /\ out.raw_profiles[i] = <<>>
                          /\ out.eur_df[i].EUR = 0
               /\ alt.status = "ok" =>
                      /\ SeriesOf(out.sum_df) = SeriesOf(alt.sum_df)
                      /\ out.total_eur = alt.total_eur
               /\ \A k \in DOMAIN plot.labels :
                      (\A i \in DOMAIN WellsOf(plot.labels[k]) :
                           IsLate(WellsOf(plot.labels[k])[i]))
                      => /\ SummedOf(plot.labels[k]) = <<>>
                         /\ out.total_eur[plot.labels[k]] = 0

\* a label with a late case and a case in range: the series of the label is
\* there, and it is the series of the case in range alone
C16_Witness ==
    /\ out.status = "ok"
    /\ \E k \in DOMAIN plot.labels :
           LET wells == WellsOf(plot.labels[k])
           IN  /\ Len(wells) = 2
               /\ IsLate(wells[1])
               /\ ~IsLate(wells[2])
               /\ Len(SummedOf(plot.labels[k])) > 1
               /\ \A i \in DOMAIN SummedOf(plot.labels[k]) :
                      SummedOf(plot.labels[k])[i].rate = ProfileOf(wells[2])[i].rate
               /\ out.total_eur[plot.labels[k]] > 0

\* the only case of a selected label is late, and the call has completed
C16_WitnessOnlyCase ==
    /\ out.status = "ok"
    /\ Len(plot.labels) = 2
    /\ Len(WellsOf(plot.labels[1])) = 1
    /\ IsLate(WellsOf(plot.labels[1])[1])
    /\ SummedOf(plot.labels[1]) = <<>>
    /\ SummedOf(plot.labels[2]) # <<>>

(***************************************************************************)
(* Properties of insert_cases and of the case store (checked under         *)
(* SpecStore).                                                             *)
(***************************************************************************)
\* a text cell without a character other than a blank
IsBlank(str) == \A i \in DOMAIN str : str[i] = " "

\* no required field of the edited row is missing
HasRequired(row) ==
    /\ row.well_name # None
    /\ row.case_label # None
    /\ \A v \in {row.eff_date, row.qi, row.di, row.b} : v # NaN

\* the row is one insert_cases has to persist
IsInsertable(row) ==
    HasRequired(row) /\ ~IsBlank(row.well_name) /\ ~IsBlank(row.case_label)

\* the position row i of the batch has among the rows the loop iterates over
IterIndex(edited, i) == Cardinality({j \in 1..i : HasRequired(edited[j])})

\* the insert of row i of the batch of the call in eng raised a database error
InsertFailed(i) == IsInsertable(eng.edited[i]) /\ IterIndex(eng.edited, i) \in eng.fails

\* row i of the batch of the call in eng was to be persisted and its insert ran
InsertDone(i) == IsInsertable(eng.edited[i]) /\ IterIndex(eng.edited, i) \notin eng.fails

\* the rows the call in eng added to the table
Added == SubSeq(db, Len(eng.before) + 1, Len(db))

\* C17: insert_cases returns the number of rows it persisted; a row with a
\* missing required field or with a well name or label that is empty after
\* trimming is skipped and the other rows are still persisted; a batch of 4 rows
\* of which one has an empty well name (the others valid, no database error)
\* persists 3 rows and returns 3.
C17_CountIsPersisted ==
    eng.op = "insert_cases" =>
        LET rows == eng.edited
            good == {i \in DOMAIN rows : IsInsertable(rows[i])}
            bad  == DOMAIN rows \ good
        IN  /\ Len(db) >= Len(eng.before)
            /\ eng.ret = Len(db) - Len(eng.before)
            /\ eng.ret <= Cardinality(good)
            /\ (\A i \in good : ~InsertFailed(i)) => eng.ret = Cardinality(good)
            /\ (/\ Len(rows) = TemplateRows
                /\ Cardinality(bad) = 1
                /\ \A i \in bad : rows[i].well_name = None \/ IsBlank(rows[i].well_name)
                /\ \A i \in good : ~InsertFailed(i))
               => eng.ret = 3 /\ Len(Added) = 3

\* the example: a batch of 4 rows, the second with a well name of one blank
C17_Witness ==
    /\ eng.op = "insert_cases"
    /\ Len(eng.edited) = 4
    /\ eng.edited[2].well_name = <<" ">>
    /\ \A i \in {1, 3, 4} : IsInsertable(eng.edited[i])
    /\ eng.fails = {}
    /\ eng.ret = 3
    /\ Len(db) = Len(eng.before) + 3

\* C18: every row of the table forecast_cases has a well name and a label that
\* are not empty and carry no blank at either end: they are stored trimmed.
C18_StoredNamesTrimmed ==
    \A i \in DOMAIN db :
        \A str \in {db[i].well_name, db[i].case_label} :
            /\ str # None
            /\ str # <<>>
            /\ str[1] # " "
            /\ str[Len(str)] # " "

\* a row typed as " B " / " Y" has been stored as "B" / "Y" after an earlier
\* batch
C18_Witness ==
    /\ eng.op = "insert_cases"
    /\ eng.before # <<>>
    /\ \E i \in DOMAIN eng.edited :
           /\ eng.edited[i].well_name = <<" ", "B", " ">>
           /\ eng.edited[i].case_label = <<" ", "Y">>
           /\ InsertDone(i)
    /\ db[Len(db)].well_name = <<"B">>
    /\ db[Len(db)].case_label = <<"Y">>

\* one step leaves every stored row in place and unchanged; only insert_cases
\* changes the table; the forecast functions change neither the table nor the
\* loaded case list
AppendOnlyStep ==
    /\ Len(db') >= Len(db)
    /\ \A i \in DOMAIN db : db'[i] = db[i]
    /\ db' # db => eng'.op = "insert_cases"
    /\ eng'.op \in {"make_profile", "eur_from_profile", "forecast_outputs"}
           => db' = db /\ cases_df' = cases_df

\* C19: the case store is append-only: whatever sequence of insert_cases,
\* load_cases, make_profile, eur_from_profile and forecast_outputs calls is made,
\* every call leaves each stored row present with its fields unchanged;
\* insert_cases only adds rows, and the forecast functions change neither the
\* store nor the case list given to them.
C19_AppendOnly == [][AppendOnlyStep]_vars

\* a batch has added a row for a well and label that the store already held a
\* row for: both rows are there
C19_Witness ==
    /\ eng.op = "insert_cases"
    /\ eng.before # <<>>
    /\ Len(db) > Len(eng.before)
    /\ db[1] = eng.before[1]
    /\ db[Len(db)].well_name = db[1].well_name
    /\ db[Len(db)].case_label = db[1].case_label

\* the positions of the batch of the call in eng whose insert ran, in order
DonePositions == Ascending({i \in DOMAIN eng.edited : InsertDone(i)})

\* C20: every row of a batch is inserted on its own: the rows added to the table
\* are, in batch order, exactly the valid rows whose insert raised no database
\* error, each with its own values, and the count is their number; a skipped or
\* failed row is not counted and keeps no row before or after it from being
\* persisted.
C20_RowsIndependent ==
    eng.op = "insert_cases" =>
        /\ Len(Added) = Len(DonePositions)
        /\ eng.ret = Len(DonePositions)
        /\ \A j \in DOMAIN DonePositions :
               LET row == eng.edited[DonePositions[j]]
               IN  /\ Added[j].well_name = strip(row.well_name)
                   /\ Added[j].case_label = strip(row.case_label)
                   /\ Added[j].eff_date = row.eff_date
                   /\ Added[j].qi = row.qi
                   /\ Added[j].di = row.di
                   /\ Added[j].b = row.b

\* a batch of 4 rows: the first persisted, the second skipped, the insert of the
\* third raised, the fourth persisted; the count is 2
C20_Witness ==
    /\ eng.op = "insert_cases"
    /\ Len(eng.edited) = 4
    /\ InsertDone(1)
    /\ ~IsInsertable(eng.edited[2])
    /\ InsertFailed(3)
    /\ InsertDone(4)
    /\ eng.ret = 2
    /\ Len(Added) = 2
    /\ Added[2].well_name = strip(eng.edited[4].well_name)

(***************************************************************************)
(* Properties of repeated calls (checked under SpecRepeat).                *)
(***************************************************************************)
\* the call held in eng has the arguments of the forecast_outputs call whose
\* result was kept
SameCallAsKept ==
    /\ out # NoOutput
    /\ eng.op = "forecast_outputs"
    /\ eng.labels = plot.labels
    /\ eng.end_date = plot.end_date
    /\ eng.q_abnd = plot.q_abnd
    /\ cases_df = plot.cases

IsFloat(x) == x # Raised /\ (IsNaN(x) \/ IsInf(x) \/ (NegInf < x /\ x < Inf))

\* 1 + b*di*t of the arps_rate call held in eng
BaseOfCall == Scale + FMul(eng.b, eng.di) * eng.t

\* C22: arps_rate and make_profile return a result for every numeric qi, di, b
\* and abandonment rate, negative ones included, and raise nothing: where
\* 1 + b*di*t is 0 the rate is an infinity (nan for qi = 0), where it is negative
\* under a fractional exponent the rate is nan; make_profile returns a frame
\* whose rows lie in the date range and have a rate that is a number.
C22_NeverRejects ==
    /\ eng.op = "arps_rate" =>
           /\ IsFloat(eng.ret)
           /\ (eng.b > 0 /\ BaseOfCall = 0) =>
                  eng.ret = (IF IsNaN(eng.qi) \/ eng.qi = 0 THEN NaN
                             ELSE IF eng.qi > 0 THEN Inf ELSE NegInf)
           /\ (eng.b = Fx(2, 1) /\ BaseOfCall < 0) => IsNaN(eng.ret)
           /\ (eng.b < 0 /\ BaseOfCall = 0 /\ ~IsNaN(eng.qi)) => eng.ret = 0
    /\ eng.op = "make_profile" =>
           /\ Len(eng.ret) <= eng.call.end_date - eng.call.start_date + 1
                  \/ eng.ret = <<>>
           /\ \A i \in DOMAIN eng.ret :
                  /\ eng.ret[i].Date \in eng.call.start_date..eng.call.end_date
                  /\ IsFloat(eng.ret[i].rate)
                  /\ ~IsNaN(eng.ret[i].rate)
                  /\ IsFloat(eng.ret[i].cum)

\* a negative decline rate brings 1 + b*di*t to 0: the rate is an infinity
C22_Witness ==
    /\ eng.op = "arps_rate"
    /\ eng.di < 0
    /\ eng.b > 0
    /\ BaseOfCall = 0
    /\ eng.qi > 0
    /\ eng.ret = Inf

\* a profile of negative rates above a negative abandonment rate
C22_WitnessProfile ==
    /\ eng.op = "make_profile"
    /\ eng.call.qi < 0
    /\ ~IsNaN(eng.call.qi)
    /\ eng.call.q_abnd < 0
    /\ Len(eng.ret) > 1
    /\ eng.ret[1].rate < 0

\* C25: eur_from_profile of a profile with exactly one retained sample is 0.0
\* whatever the rate of that sample; that is the profile of a case whose
\* effective date is the end date, and the profile of which only one day is at
\* or above the abandonment rate.
C25_SingleSampleIsZero ==
    /\ eng.op = "eur_from_profile" /\ Len(eng.df) = 1 => eng.ret = 0
    /\ ( /\ eng.op = "eur_from_profile"
         /\ eng.call # NoCall
         /\ eng.call.start_date = eng.call.end_date
         /\ FGe(asfloat(arps_rate(0, eng.call.qi, eng.call.di, eng.call.b)),
                eng.call.q_abnd) )
           => Len(eng.df) = 1 /\ eng.ret = 0

\* only the first of several days is at or above the abandonment rate
C25_Witness ==
    /\ eng.op = "eur_from_profile"
    /\ eng.call # NoCall
    /\ eng.call.start_date < eng.call.end_date
    /\ Len(eng.df) = 1
    /\ eng.df[1].rate > 0
    /\ eng.ret = 0

\* the effective date is the end date
C25_WitnessLastDay ==
    /\ eng.op = "eur_from_profile"
    /\ eng.call # NoCall
    /\ eng.call.start_date = eng.call.end_date
    /\ Len(eng.df) = 1
    /\ eng.df[1].rate > 0
    /\ eng.ret = 0

\* C26: for a profile with at least two retained rows eur_from_profile is the
\* last cumulative value minus half of the first and half of the last rate; so
\* for non-negative rates it never exceeds the final cumulative value.
C26_EurFromCumulative ==
    eng.op = "eur_from_profile" /\ Len(eng.df) >= 2 =>
        LET n == Len(eng.df)
        IN  /\ 2 * eng.ret = 2 * eng.df[n].cum - eng.df[1].rate - eng.df[n].rate
            /\ (\A i \in 1..n : eng.df[i].rate >= 0) => eng.ret <= eng.df[n].cum

\* a built profile of several rows with different first and last rates
C26_Witness ==
    /\ eng.op = "eur_from_profile"
    /\ eng.call # NoCall
    /\ Len(eng.df) >= 3
    /\ eng.df[1].rate > eng.df[Len(eng.df)].rate
    /\ eng.df[Len(eng.df)].rate > 0
    /\ eng.ret < eng.df[Len(eng.df)].cum

\* C27: a day whose computed rate is nan is absent from the profile make_profile
\* returns, whatever the abandonment rate: the rows are exactly the days whose
\* rate is a number at or above the abandonment rate, and the cumulative column
\* is the running sum of the rows kept.
C27_NanDaysDropped ==
    eng.op = "make_profile" =>
        /\ \A d \in eng.call.start_date..eng.call.end_date :
               IsNaN(RateOfDay(eng.call, d)) =>
                   \A i \in DOMAIN eng.ret : eng.ret[i].Date # d
        /\ {eng.ret[i].Date : i \in DOMAIN eng.ret} = KeptDays(eng.call)
        /\ Len(eng.ret) = Cardinality(KeptDays(eng.call))
        /\ \A i \in DOMAIN eng.ret :
               /\ eng.ret[i].rate = RateOfDay(eng.call, eng.ret[i].Date)
               /\ eng.ret[i].cum = SumTo([k \in DOMAIN eng.ret |-> eng.ret[k].rate], i)

\* the rate is a number on the first days and nan after them; the days before
\* are kept under a negative abandonment rate
C27_Witness ==
    /\ eng.op = "make_profile"
    /\ eng.call.q_abnd < 0
    /\ Len(eng.ret) >= 2
    /\ \E d \in eng.call.start_date..eng.call.end_date :
           IsNaN(RateOfDay(eng.call, d))

\* every rate is nan: the profile is empty under a positive abandonment rate
C27_WitnessAllNan ==
    /\ eng.op = "make_profile"
    /\ IsNaN(eng.call.qi)
    /\ eng.call.q_abnd > 0
    /\ eng.call.start_date < eng.call.end_date
    /\ eng.ret = <<>>

\* C23: load_cases returns the stored case rows, each once, in descending
\* effective-date order, and rows of equal effective date in descending case
\* identifier order.
C23_LoadOrder ==
    eng.op = "load_cases" =>
        /\ Len(eng.ret) = Len(db)
        /\ Range(eng.ret) = Range(db)
        /\ \A i, j \in DOMAIN eng.ret :
               i < j =>
                   \/ eng.ret[i].eff_date > eng.ret[j].eff_date
                   \/ /\ eng.ret[i].eff_date = eng.ret[j].eff_date
                      /\ eng.ret[i].case_id > eng.ret[j].case_id

\* three stored rows: two of one effective date in descending identifier
\* order, after a row of a later date and a smaller identifier than the first
C23_Witness ==
    /\ eng.op = "load_cases"
    /\ Len(eng.ret) = 3
    /\ eng.ret[1].eff_date > eng.ret[2].eff_date
    /\ eng.ret[1].case_id < eng.ret[2].case_id
    /\ eng.ret[2].eff_date = eng.ret[3].eff_date
    /\ eng.ret[2].case_id > eng.ret[3].case_id
    /\ eng.ret # db

\* series has one row per date on which a case row of label lbl has a sample,
\* with the sum of the rates of these case rows, and nothing else
BuiltFromOwn(series, lbl) ==
    LET wells == WellsOf(lbl)
        dates == UNION {DatesOf(ProfileOf(wells[i])) : i \in DOMAIN wells}
    IN  /\ Len(series) = Cardinality(dates)
        /\ {series[i].Date : i \in DOMAIN series} = dates
        /\ \A i \in DOMAIN series :
               series[i].rate =
                   SeqSum([w \in DOMAIN wells |->
                              RateOn(ProfileOf(wells[w]), series[i].Date)])

\* C24 (as claimed): for every order of the selected labels and every number of
\* case rows per label, a label without case rows included, the summed series
\* forecast_outputs builds for a label is made of the raw profiles of the label's
\* own case rows and of no profile of a label processed before it.
C24_OwnProfilesOnly ==
    Plotted /\ out.status # "warning" =>
        /\ out.status = "ok" =>
               \A k \in DOMAIN plot.labels :
                   BuiltFromOwn(SummedOf(plot.labels[k]), plot.labels[k])
        /\ out.status # "ok" => BuiltFromOwn(out.df_grp, out.lbl)

(***************************************************************************)
(* Properties of the SQL assistant page (checked under SpecAssistant).     *)
(***************************************************************************)
\* text is a non-empty string whose upper-cased form holds no forbidden keyword
IsAcceptable(text) ==
    /\ text # None
    /\ text # <<>>
    /\ \A word \in forbidden_keywords : ~Contains(upper(text), word)

\* C28: a generated query is passed to read_sql_query only if
\* get_claude_response returned a non-empty string whose upper-cased text
\* contains none of DROP, DELETE, INSERT, UPDATE, ALTER as a substring;
\* otherwise the fixed error message is shown, the run stops and no SQL is
\* executed.
C28_OnlyAcceptedSqlRuns ==
    /\ \A i \in DOMAIN assistant.history : IsAcceptable(assistant.history[i])
    /\ assistant.submit =>
           /\ assistant.sql = get_claude_response(assistant.answer)
           /\ assistant.executed # <<>> =>
                  /\ IsAcceptable(assistant.sql)
                  /\ assistant.executed = <<assistant.sql>>
           /\ ~IsAcceptable(assistant.sql) =>
                  /\ assistant.error = ERROR_MESSAGE
                  /\ assistant.view = "stopped"
                  /\ assistant.executed = <<>>
                  /\ assistant.code = None

\* a query with a forbidden word in lower case is refused after a query was run
C28_Witness ==
    /\ assistant.submit
    /\ assistant.answer = R_Drop
    /\ assistant.sql = R_Drop
    /\ assistant.error = ERROR_MESSAGE
    /\ assistant.executed = <<>>
    /\ assistant.history = <<R_Select>>

\* a fenced query is cleaned, accepted and run
C28_WitnessAccepted ==
    /\ assistant.submit
    /\ assistant.answer = R_Fenced
    /\ assistant.executed = <<R_Select>>
    /\ assistant.view = "results"

\* the API call failed: nothing is run
C28_WitnessNoAnswer ==
    /\ assistant.submit
    /\ assistant.answer = APIError
    /\ assistant.sql = None
    /\ assistant.error = ERROR_MESSAGE
    /\ assistant.executed = <<>>

(***************************************************************************)
(* Properties of the login gate (checked under SpecLogin).                 *)
(***************************************************************************)
\* the navigation is on the screen only in a run that found authenticated true
\* and left it true
NavigationOnlyAuthenticated ==
    screen.page # "none" /\ screen.navigation =>
        /\ screen.page = "main_app"
        /\ screen.checked
        /\ "authenticated" \in DOMAIN state
        /\ state.authenticated = TRUE
        /\ state.username \in DOMAIN USERS

\* authenticated turns true only in a run of the login form submitted with
\* "Login", a user name that is a key of USERS and that user's password; a
\* logout sets authenticated to false, and the run after it is the login page
LoginStep ==
    /\ (~IsAuthenticated(state) /\ IsAuthenticated(state')) =>
           /\ screen'.page = "login"
           /\ screen'.button = "login"
           /\ screen'.username \in DOMAIN USERS
           /\ USERS[screen'.username] = screen'.password
           /\ state'.username = screen'.username
    /\ (screen'.page = "main_app" /\ screen'.logout) =>
           /\ "authenticated" \in DOMAIN state'
           /\ state'.authenticated = FALSE
           /\ ~screen'.navigation
    /\ (screen.page = "main_app" /\ screen.logout /\ screen' # NoScreen) =>
           /\ screen'.page = "login"
           /\ ~screen'.navigation

\* C29: over any sequence of login attempts, logouts and reruns the navigation
\* of main_app is rendered only in a run where session state authenticated is
\* true; authenticated becomes true only by a login whose user name is a key of
\* USERS and whose password is that user's stored password; a logout sets it to
\* false, so that the next run shows the login page again.
C29_LoginGate == []NavigationOnlyAuthenticated /\ [][LoginStep]_vars

\* the login page is shown again after a logout: authenticated is set, and false
C29_Witness ==
    /\ screen.page = "login"
    /\ "authenticated" \in DOMAIN state
    /\ state.authenticated = FALSE
    /\ state.username = "user"
    /\ screen.message = "Invalid username or password"
    /\ screen.username = "user"

\* the navigation is rendered after a login
C29_WitnessNavigation ==
    /\ screen.page = "main_app"
    /\ screen.navigation
    /\ screen.welcome = "test"

(***************************************************************************)
(* Properties of apply_common_filters (checked under SpecFilter).          *)
(***************************************************************************)
\* row of the call held in filtered has its date in the selected range, both
\* bounds included, and its field, well bore and zone in the selections that
\* are not empty
MatchesCommon(row) ==
    /\ ~IsNaN(row.date)
    /\ row.date >= filtered.selected_date_range[1]
    /\ row.date <= filtered.selected_date_range[2]
    /\ filtered.selected_fields = {} \/ row.field \in filtered.selected_fields
    /\ filtered.selected_well_bores = {}
           \/ row.well_bore \in filtered.selected_well_bores
    /\ filtered.selected_zones = {} \/ row.zone \in filtered.selected_zones

\* the result is a part of the input, in the input's order, and the input frame
\* is as it was
SubsetAndUnmodified ==
    /\ filtered.df_after = filtered.df
    /\ filtered.ret.columns = filtered.df.columns
    /\ Len(filtered.ret.rows) <= Len(filtered.df.rows)
    /\ Range(filtered.ret.rows) \subseteq Range(filtered.df.rows)

\* C30 (as claimed): apply_common_filters returns exactly the input rows whose
\* date lies in the selected range, both bounds inclusive, and whose field,
\* well_bore, zone and type are each in the corresponding selection, an empty
\* selection imposing no restriction; the result is a subset of the input rows
\* and the input is not modified.
C30_ExactlyTheSelectedRows ==
    filtered.op = "apply_common_filters" =>
        /\ filtered.ret.rows =
               SelectSeq(filtered.df.rows, LAMBDA row :
                   /\ MatchesCommon(row)
                   /\ \/ filtered.selected_types = {}
                      \/ "type" \in DOMAIN row /\ row.type \in filtered.selected_types)
        /\ SubsetAndUnmodified

\* C30 (amended): as claimed, but the type selection restricts only a frame
\* that has a column type; on a frame without it the rows are those that match
\* the date range and the field, well_bore and zone selections.
C30_TypeOnlyWhereColumn ==
    filtered.op = "apply_common_filters" =>
        /\ filtered.ret.rows =
               SelectSeq(filtered.df.rows, LAMBDA row :
                   /\ MatchesCommon(row)
                   /\ \/ filtered.selected_types = {}
                      \/ "type" \notin filtered.df.columns
                      \/ row.type \in filtered.selected_types)
        /\ SubsetAndUnmodified

\* a frame without the column type is filtered with a type selected: the row
\* on the last day of the range is returned, the row before the range is not
C30_Witness ==
    /\ filtered.op = "apply_common_filters"
    /\ filtered.module = "2IPR_analysis.py"
    /\ "type" \notin filtered.df.columns
    /\ filtered.selected_types # {}
    /\ filtered.selected_date_range = <<2, 3>>
    /\ Len(filtered.df.rows) = 2
    /\ Len(filtered.ret.rows) = 1
    /\ filtered.ret.rows[1].date = 3

\* a frame with the column type: every selection is set, one of two rows is kept
C30_WitnessTyped ==
    /\ filtered.op = "apply_common_filters"
    /\ filtered.module = "metrics.py"
    /\ "type" \in filtered.df.columns
    /\ filtered.selected_types # {}
    /\ filtered.selected_fields # {}
    /\ filtered.selected_zones # {}
    /\ filtered.selected_date_range = <<2, 3>>
    /\ Len(filtered.df.rows) = 2
    /\ Len(filtered.ret.rows) = 1
    /\ filtered.ret.rows[1].date = 2

====
